---- MODULE Spec2Model ----
(***************************************************************************)
(* The mock IBM MQ queue engine (class MockMQServer), its snapshot         *)
(* persistence, and the operations of mock-mq-handler.js that wrap it;     *)
(* the stub matcher of the MQ imposter (class MQMessageHandler) and the    *)
(* validation of its configuration (class MQConfig).                       *)
(*                                                                         *)
(* A JS Map is modelled as a record [keys, val]: the keys in insertion     *)
(* order and the function from key to value.  The state file is modelled   *)
(* as the JSON document savePersistentData writes: an array of             *)
(* [name, queueObject] entries and the two counters.                       *)
(*                                                                         *)
(* Time is not modelled as a clock: the creation time of a queue is an     *)
(* input drawn from Times, and the epoch-ms suffix of a generated id and   *)
(* the putTime of a message are left out (the ids are their counters).     *)
(***************************************************************************)
EXTENDS Integers, Sequences, FiniteSets, TLC

VARIABLES
    queues,         \* this.queues: Map name -> queue object
    messageId,      \* this.messageId: next message sequence number
    correlationId,  \* this.correlationId: next correlation sequence number
    file,           \* data/mock-mq/mock-mq-state.json
    faults,         \* number of snapshot writes the disk may still fail
    last,           \* the last call: its arguments, result and envelope
    hist,           \* per queue: messages put / got since the queue was last reset
    delivered,      \* messageIds returned by a consuming get in this process
    hostQ,          \* whether the global object of the host holds a Q
    imposterConfig, \* MQServer.options: the configuration of the imposter
    creationRequest, \* the argument of the last call of create
    errors,         \* the errors of the last validateConfig
    processed,      \* the last call of MQMessageHandler.processMessage
    mqServer,       \* the MQServer of the imposter, once constructed
    eventLoop,      \* of the server process: the active intervals, the suspended calls
    queueManager,   \* the IBM MQ queue manager: the messages on its queues
    messageHandler, \* the MessageHandler of message-handler.js
    timers,         \* of its process: the handles of the pending setTimeout calls
    helpers         \* the helper processes of the bridge: their position and store

serverVars == <<mqServer, eventLoop, queueManager>>

storeVars == <<queues, messageId, correlationId, file, faults, last, hist, delivered>>

pollerVars == <<messageHandler, timers>>

bridgeVars == <<helpers>>

matcherVars == <<hostQ, imposterConfig, creationRequest, errors, processed>>

vars == <<queues, messageId, correlationId, file, faults, last, hist, delivered,
          hostQ, imposterConfig, creationRequest, errors, processed,
          mqServer, eventLoop, queueManager, messageHandler, timers, helpers>>

----------------------------------------------------------------------------
(* Bounds of the model *)

\* successful puts stop once the message counter reaches this value
MaxMessageId == 3
\* at most this many snapshot writes fail (PersistSpec)
MaxFaults == 1

(* Program constants *)

InitialCounter == 1
DefaultQueueMaxDepth == 10000
CreateQueueDefaultMaxDepth == 5000
DefaultPersistence == 1
DefaultMessageType == 8
DefaultExpiry == -1
StatusOK == 200
StatusNoContent == 204
StatusError == 500
StatusCreated == 201
StatusConflict == 409

----------------------------------------------------------------------------
(* JavaScript values *)

\* an optional value: <<>> is undefined, <<v>> is v
Undefined == <<>>
Some(v) == <<v>>

\* opt || dflt for a number: undefined and 0 are falsy
OrNumber(opt, dflt) == IF opt = Undefined \/ opt[1] = 0 THEN dflt ELSE opt[1]

\* opt || dflt for a string: undefined and "" are falsy
OrString(opt, dflt) == IF opt = Undefined \/ opt[1] = "" THEN dflt ELSE opt[1]

\* opt || false for a boolean
OrFalse(opt) == IF opt = Undefined THEN FALSE ELSE opt[1]

(* Map *)

EmptyMap == [keys |-> <<>>, val |-> [k \in {} |-> 0]]

MapHas(m, k) == k \in DOMAIN m.val

MapGet(m, k) == m.val[k]

MapSet(m, k, v) ==
    IF MapHas(m, k)
    THEN [keys |-> m.keys, val |-> [m.val EXCEPT ![k] = v]]
    ELSE [keys |-> Append(m.keys, k),
          val |-> [x \in (DOMAIN m.val) \cup {k} |-> IF x = k THEN v ELSE m.val[x]]]

MapDelete(m, k) ==
    [keys |-> SelectSeq(m.keys, LAMBDA x : x # k),
     val |-> [x \in (DOMAIN m.val) \ {k} |-> m.val[x]]]

\* Array.from(map.entries())
MapEntries(m) == [i \in 1..Len(m.keys) |-> <<m.keys[i], m.val[m.keys[i]]>>]

RECURSIVE MapFromPrefix(_, _)
MapFromPrefix(entries, n) ==
    IF n = 0 THEN EmptyMap
    ELSE MapSet(MapFromPrefix(entries, n - 1), entries[n][1], entries[n][2])

\* new Map(entries)
NewMap(entries) == MapFromPrefix(entries, Len(entries))

----------------------------------------------------------------------------
(* Inputs *)

defaultQueues ==
    <<"DEV.QUEUE.1", "DEV.QUEUE.RESPONSE", "TEST.REQUEST.QUEUE",
      "TEST.RESPONSE.QUEUE", "DEV.QUEUE.ERROR">>

\* the queue names the calls of the model use
QueueNames == {"DEV.QUEUE.1", "APP.QUEUE"}

\* values of new Date().toISOString(): when a process starts, when a queue
\* is created later
StartTimes == {"t0"}
Times == {"t1"}

CreateOptions ==
    [maxDepth : {Some(-1), Some(1)},
     description : {Undefined}]

\* the (messageData, options) pairs of putMessage
PutInputs ==
    { [data |-> "a",
       options |-> [correlationId |-> Undefined, priority |-> Undefined,
                    replyToQueue |-> Undefined]],
      [data |-> "b",
       options |-> [correlationId |-> Some("c1"), priority |-> Some(5),
                    replyToQueue |-> Some("DEV.QUEUE.RESPONSE")]] }

GetOptions == [browse : {Undefined, Some(TRUE)}]

----------------------------------------------------------------------------
(* MockMQServer: the queue store.  Every method is an operator from the    *)
(* store st = [queues, messageId, correlationId] to a result r that holds  *)
(* the store after the call, what the call returned or threw, and whether  *)
(* it called savePersistentData.                                           *)

QueueNotFound == "does not exist"
QueueFull == "is full"

Store(qs, mid, cid) == [queues |-> qs, messageId |-> mid, correlationId |-> cid]

\* a call that returns undefined, throws nothing and changes nothing
Result(st) ==
    [queues |-> st.queues, messageId |-> st.messageId,
     correlationId |-> st.correlationId,
     error |-> "", message |-> <<>>, count |-> 0, flag |-> FALSE, save |-> FALSE]

Throw(st, err) == [Result(st) EXCEPT !.error = err]

NewQueue(queueName, options, now) ==
    [name |-> queueName,
     messages |-> <<>>,
     maxDepth |-> OrNumber(options.maxDepth, CreateQueueDefaultMaxDepth),
     description |-> OrString(options.description, ""),
     created |-> now,
     openInputCount |-> 0,
     openOutputCount |-> 0,
     totalMessagesIn |-> 0,
     totalMessagesOut |-> 0]

\* faulty variant: an existing queue is replaced by a new, empty one
createQueue_overwrite(st, queueName, options, now) ==
    [Result(st) EXCEPT
        !.queues = MapSet(st.queues, queueName, NewQueue(queueName, options, now)),
        !.flag = ~MapHas(st.queues, queueName)]

\* faulty variant: a queue that was created is written to the state file
createQueue_saving(st, queueName, options, now) ==
    IF ~MapHas(st.queues, queueName)
    THEN [Result(st) EXCEPT
            !.queues = MapSet(st.queues, queueName, NewQueue(queueName, options, now)),
            !.flag = TRUE, !.save = TRUE]
    ELSE [Result(st) EXCEPT !.flag = FALSE]

createQueue(st, queueName, options, now) ==
    IF ~MapHas(st.queues, queueName)
    THEN [Result(st) EXCEPT
            !.queues = MapSet(st.queues, queueName, NewQueue(queueName, options, now)),
            !.flag = TRUE]
    ELSE [Result(st) EXCEPT !.flag = FALSE]

\* `Mock queue: ${queueName}`
DefaultDescription(queueName) ==
    CASE queueName = "DEV.QUEUE.1" -> "Mock queue: DEV.QUEUE.1"
      [] queueName = "DEV.QUEUE.RESPONSE" -> "Mock queue: DEV.QUEUE.RESPONSE"
      [] queueName = "TEST.REQUEST.QUEUE" -> "Mock queue: TEST.REQUEST.QUEUE"
      [] queueName = "TEST.RESPONSE.QUEUE" -> "Mock queue: TEST.RESPONSE.QUEUE"
      [] queueName = "DEV.QUEUE.ERROR" -> "Mock queue: DEV.QUEUE.ERROR"

RECURSIVE CreateDefaults(_, _, _)
CreateDefaults(st, n, now) ==
    IF n = 0 THEN st
    ELSE LET prev == CreateDefaults(st, n - 1, now)
             r == createQueue(prev, defaultQueues[n],
                              [maxDepth |-> Some(DefaultQueueMaxDepth),
                               description |-> Some(DefaultDescription(defaultQueues[n]))],
                              now)
         IN  Store(r.queues, r.messageId, r.correlationId)

initializeDefaultQueues(st, now) == CreateDefaults(st, Len(defaultQueues), now)

deleteQueue(st, queueName) ==
    [Result(st) EXCEPT !.queues = MapDelete(st.queues, queueName),
                       !.flag = MapHas(st.queues, queueName)]

\* faulty variant: the counter is read and not advanced
generateMessageId_peek(st) == [id |-> st.messageId, next |-> st.messageId]

\* returns the id and advances the counter (this.messageId++)
generateMessageId(st) == [id |-> st.messageId, next |-> st.messageId + 1]

\* faulty variant: the counter is read and not advanced
generateCorrelationId_peek(st) ==
    [id |-> [generated |-> TRUE, seq |-> st.correlationId, text |-> ""],
     next |-> st.correlationId]

generateCorrelationId(st) ==
    [id |-> [generated |-> TRUE, seq |-> st.correlationId, text |-> ""],
     next |-> st.correlationId + 1]

\* a correlation id the caller supplied
SuppliedCorrelationId(text) == [generated |-> FALSE, seq |-> 0, text |-> text]

\* faulty variant: the capacity test is off by one
putMessage_isFull_strict(queue) == Len(queue.messages) > queue.maxDepth

putMessage_isFull(queue) == Len(queue.messages) >= queue.maxDepth

RECURSIVE InsertByPriority(_, _)
InsertByPriority(messages, message) ==
    IF messages = <<>> THEN <<message>>
    ELSE IF Head(messages).priority < message.priority THEN <<message>> \o messages
    ELSE <<Head(messages)>> \o InsertByPriority(Tail(messages), message)

\* faulty variant: a message is queued ahead of the messages of lower priority
putMessage_enqueue_byPriority(queue, message) ==
    [queue EXCEPT !.messages = InsertByPriority(@, message), !.totalMessagesIn = @ + 1]

putMessage_enqueue(queue, message) ==
    [queue EXCEPT !.messages = Append(@, message), !.totalMessagesIn = @ + 1]

putMessage(st, queueName, messageData, options) ==
    IF ~MapHas(st.queues, queueName) THEN Throw(st, QueueNotFound)
    ELSE LET queue == MapGet(st.queues, queueName) IN
    IF putMessage_isFull(queue) THEN Throw(st, QueueFull)
    ELSE LET mid == generateMessageId(st)
             supplied == OrString(options.correlationId, "") # ""
             cid == generateCorrelationId(st)
             message ==
                 [messageId |-> mid.id,
                  correlationId |->
                      IF supplied THEN SuppliedCorrelationId(options.correlationId[1])
                      ELSE cid.id,
                  data |-> messageData,
                  priority |-> OrNumber(options.priority, 0),
                  persistence |-> DefaultPersistence,
                  format |-> "MQSTR",
                  messageType |-> DefaultMessageType,
                  replyToQueue |-> OrString(options.replyToQueue, ""),
                  expiry |-> DefaultExpiry,
                  putApplicationName |-> "MockMQServer"]
         IN  [Result(st) EXCEPT
                !.queues = MapSet(st.queues, queueName, putMessage_enqueue(queue, message)),
                !.messageId = mid.next,
                !.correlationId = IF supplied THEN st.correlationId ELSE cid.next,
                !.message = <<message>>,
                !.save = TRUE]

\* faulty variant: a consuming get counts the message and leaves it on the queue
getMessage_dequeue_keep(queue) == [queue EXCEPT !.totalMessagesOut = @ + 1]

\* faulty variant: a consuming get removes the message and does not count it
getMessage_dequeue_uncounted(queue) == [queue EXCEPT !.messages = Tail(@)]

getMessage_dequeue(queue) ==
    [queue EXCEPT !.messages = Tail(@), !.totalMessagesOut = @ + 1]

\* faulty variant: browse is ignored, every get consumes
getMessage_ignoreBrowse(st, queueName, options) ==
    IF ~MapHas(st.queues, queueName) THEN Throw(st, QueueNotFound)
    ELSE LET queue == MapGet(st.queues, queueName) IN
    IF Len(queue.messages) = 0 THEN Result(st)
    ELSE [Result(st) EXCEPT
            !.queues = MapSet(st.queues, queueName, getMessage_dequeue(queue)),
            !.message = <<Head(queue.messages)>>,
            !.save = TRUE]

getMessage(st, queueName, options) ==
    IF ~MapHas(st.queues, queueName) THEN Throw(st, QueueNotFound)
    ELSE LET queue == MapGet(st.queues, queueName) IN
    IF Len(queue.messages) = 0 THEN Result(st)
    ELSE IF OrFalse(options.browse)
    THEN [Result(st) EXCEPT !.message = <<queue.messages[1]>>]
    ELSE [Result(st) EXCEPT
            !.queues = MapSet(st.queues, queueName, getMessage_dequeue(queue)),
            !.message = <<Head(queue.messages)>>,
            !.save = TRUE]

\* faulty variant: a queue that does not exist is reported as empty
getQueueDepth_zero(st, queueName) ==
    IF ~MapHas(st.queues, queueName) THEN Result(st)
    ELSE [Result(st) EXCEPT !.count = Len(MapGet(st.queues, queueName).messages)]

getQueueDepth(st, queueName) ==
    IF ~MapHas(st.queues, queueName) THEN Throw(st, QueueNotFound)
    ELSE [Result(st) EXCEPT !.count = Len(MapGet(st.queues, queueName).messages)]

\* faulty variant: the count is read after the messages are dropped
clearQueue_countAfter(st, queueName) ==
    IF ~MapHas(st.queues, queueName) THEN Throw(st, QueueNotFound)
    ELSE LET queue == MapGet(st.queues, queueName) IN
         [Result(st) EXCEPT
            !.count = 0,
            !.queues = MapSet(st.queues, queueName, [queue EXCEPT !.messages = <<>>]),
            !.save = TRUE]

\* faulty variant: clearing a queue also resets its message counters
clearQueue_resetCounters(st, queueName) ==
    IF ~MapHas(st.queues, queueName) THEN Throw(st, QueueNotFound)
    ELSE LET queue == MapGet(st.queues, queueName) IN
         [Result(st) EXCEPT
            !.count = Len(queue.messages),
            !.queues = MapSet(st.queues, queueName,
                              [queue EXCEPT !.messages = <<>>,
                                            !.totalMessagesIn = 0,
                                            !.totalMessagesOut = 0]),
            !.save = TRUE]

clearQueue(st, queueName) ==
    IF ~MapHas(st.queues, queueName) THEN Throw(st, QueueNotFound)
    ELSE LET queue == MapGet(st.queues, queueName) IN
         [Result(st) EXCEPT
            !.count = Len(queue.messages),
            !.queues = MapSet(st.queues, queueName, [queue EXCEPT !.messages = <<>>]),
            !.save = TRUE]

----------------------------------------------------------------------------
(* Snapshot persistence *)

NoFile == [kind |-> "missing", queues |-> <<>>, messageId |-> 0, correlationId |-> 0]

\* a file that JSON.parse rejects: a write that stopped half way
CorruptFile == [kind |-> "corrupt", queues |-> <<>>, messageId |-> 0, correlationId |-> 0]

\* faulty variant: the snapshot holds the queues without their messages
StateDocument_noMessages(st) ==
    [kind |-> "json",
     queues |-> [i \in 1..Len(st.queues.keys) |->
                   <<st.queues.keys[i],
                     [MapGet(st.queues, st.queues.keys[i]) EXCEPT !.messages = <<>>]>>],
     messageId |-> st.messageId,
     correlationId |-> st.correlationId]

\* the document JSON.stringify(data) writes (lastSaved is a time, left out)
StateDocument(st) ==
    [kind |-> "json",
     queues |-> MapEntries(st.queues),
     messageId |-> st.messageId,
     correlationId |-> st.correlationId]

\* how a call of writeFileSync can end
SaveOutcomes == {"ok", "failed", "torn"}

\* the file after savePersistentData: errors are caught, the call returns
savePersistentData(st, f, outcome) ==
    CASE outcome = "ok" -> StateDocument(st)
      [] outcome = "failed" -> f
      [] outcome = "torn" -> CorruptFile

RECURSIVE MapSetAll(_, _, _)
MapSetAll(m, entries, n) ==
    IF n = 0 THEN m
    ELSE MapSet(MapSetAll(m, entries, n - 1), entries[n][1], entries[n][2])

\* faulty variant: the loaded queues are added to the queues of the store
loadPersistentData_merge(st, f) ==
    IF f.kind = "json"
    THEN Store(MapSetAll(st.queues, f.queues, Len(f.queues)),
               OrNumber(Some(f.messageId), InitialCounter),
               OrNumber(Some(f.correlationId), InitialCounter))
    ELSE st

loadPersistentData(st, f) ==
    IF f.kind = "json"
    THEN Store(NewMap(f.queues),
               OrNumber(Some(f.messageId), InitialCounter),
               OrNumber(Some(f.correlationId), InitialCounter))
    ELSE st

\* new MockMQServer()
constructor(f, now) ==
    loadPersistentData(
        initializeDefaultQueues(Store(EmptyMap, InitialCounter, InitialCounter), now), f)

----------------------------------------------------------------------------
(* mock-mq-handler.js: the response envelope of an operation *)

\* n: the count the body reports (queueDepth, messagesCleared), if any
Envelope(code, status, operation, n) ==
    [statusCode |-> code, status |-> status, operation |-> operation, bodyCount |-> n]

\* a direct call of the store has no envelope
NoEnvelope == Envelope(0, "", "", Undefined)

\* requestData.queue || 'DEV.QUEUE.1'
RequestQueue(requestData) == OrString(requestData.queue, "DEV.QUEUE.1")

\* faulty variant: a receive that finds no message is reported as an error
receiveMessage_response_strict(r, queueName, browse) ==
    IF r.error # "" \/ r.message = <<>>
    THEN Envelope(StatusError, "ERROR", "RECEIVE", Undefined)
    ELSE Envelope(StatusOK, "SUCCESS", IF browse THEN "BROWSE" ELSE "RECEIVE",
                  Some(getQueueDepth(Store(r.queues, r.messageId, r.correlationId),
                                     queueName).count))

receiveMessage_response(r, queueName, browse) ==
    IF r.error # "" THEN Envelope(StatusError, "ERROR", "RECEIVE", Undefined)
    ELSE IF r.message = <<>>
    THEN Envelope(StatusNoContent, "NO_MESSAGES", "RECEIVE", Undefined)
    ELSE Envelope(StatusOK, "SUCCESS", IF browse THEN "BROWSE" ELSE "RECEIVE",
                  Some(getQueueDepth(Store(r.queues, r.messageId, r.correlationId),
                                     queueName).count))

clearQueue_response(r) ==
    IF r.error # "" THEN Envelope(StatusError, "ERROR", "CLEAR_QUEUE", Undefined)
    ELSE Envelope(StatusOK, "SUCCESS", "CLEAR_QUEUE", Some(r.count))

QueueNameRequired == "Queue name is required"

\* requestData.message || requestData.body || requestData: the request object
\* itself, taken as the payload when it has neither field, is written WholeRequest
WholeRequest == "requestData"

RequestMessageData(requestData) ==
    OrString(requestData.message, OrString(requestData.body, WholeRequest))

\* the options sendMessage hands to putMessage
sendMessage_options(requestData) ==
    [correlationId |-> requestData.correlationId,
     priority |-> Some(OrNumber(requestData.priority, 0)),
     replyToQueue |-> requestData.replyQueue]

sendMessage_response(r, queueName) ==
    IF r.error # "" THEN Envelope(StatusError, "ERROR", "SEND", Undefined)
    ELSE Envelope(StatusOK, "SUCCESS", "SEND",
                  Some(getQueueDepth(Store(r.queues, r.messageId, r.correlationId),
                                     queueName).count))

\* requestData.queueName || requestData.queue
CreateRequestQueue(requestData) ==
    OrString(requestData.queueName, OrString(requestData.queue, ""))

createQueue_response(r) ==
    IF r.error # "" THEN Envelope(StatusError, "ERROR", "CREATE_QUEUE", Undefined)
    ELSE IF r.flag THEN Envelope(StatusCreated, "SUCCESS", "CREATE_QUEUE", Undefined)
    ELSE Envelope(StatusConflict, "QUEUE_EXISTS", "CREATE_QUEUE", Undefined)

SendRequests ==
    [queue : {Undefined, Some("APP.QUEUE")},
     message : {Undefined, Some("a")},
     body : {Some("a")},
     correlationId : {Undefined},
     priority : {Undefined},
     replyQueue : {Undefined}]

CreateRequests ==
    [queueName : {Undefined, Some("APP.QUEUE")},
     queue : {Undefined, Some("DEV.QUEUE.1")},
     maxDepth : {Undefined, Some(1)},
     description : {Undefined}]

ReceiveRequests ==
    [queue : {Some("APP.QUEUE")}, browse : {Undefined, Some(TRUE)}]

ClearRequests == [queue : {Undefined}]

----------------------------------------------------------------------------
(* The state machine *)

Current == Store(queues, messageId, correlationId)

Messages(qs, queueName) ==
    IF MapHas(qs, queueName) THEN MapGet(qs, queueName).messages ELSE <<>>

NoHistory == [put |-> <<>>, got |-> <<>>]

\* save: how the write of this call ended ("none": it wrote nothing);
\* before: for a process start, how the write of the call before it ended
Call(op, via, queueName, browse, r, env, outcome, before) ==
    [op |-> op, via |-> via, queue |-> queueName, browse |-> browse,
     error |-> r.error, message |-> r.message, count |-> r.count, flag |-> r.flag,
     save |-> outcome, before |-> before,
     statusCode |-> env.statusCode, status |-> env.status, operation |-> env.operation,
     bodyCount |-> env.bodyCount]

\* the bookkeeping of the model: what was put on and got from each queue
HistoryAfter(op, queueName, browse, r) ==
    IF queueName \notin DOMAIN hist \/ r.error # "" THEN hist
    ELSE CASE op = "putMessage" ->
                [hist EXCEPT ![queueName].put = Append(@, r.message[1])]
           [] op = "getMessage" /\ ~browse /\ r.message # <<>> ->
                [hist EXCEPT ![queueName].got = Append(@, r.message[1])]
           [] op = "clearQueue" \/ op = "deleteQueue" \/ (op = "createQueue" /\ r.flag) ->
                [hist EXCEPT ![queueName] = NoHistory]
           [] OTHER -> hist

DeliveredAfter(op, browse, r) ==
    IF op = "getMessage" /\ ~browse /\ r.message # <<>>
    THEN delivered \cup {r.message[1].messageId}
    ELSE delivered

WriteFailed == "write failed"

\* faulty variant: an error of writeFileSync leaves savePersistentData and
\* the method that called it
savePersistentData_caught_rethrow(r, outcome) ==
    IF outcome = "ok" THEN r
    ELSE [r EXCEPT !.error = WriteFailed, !.message = <<>>, !.count = 0]

\* what a method that called savePersistentData returns: the catch block logs
\* the error of the write, and the method goes on with the result it had
savePersistentData_caught(r, outcome) == r

\* the queues of the queue manager that the model follows
ServerQueueNames == {"IN.A", "IN.B"}

\* no timer is set, no call is suspended, no event was emitted; no message
\* is on a queue
IdleLoop == [intervals |-> {}, tasks |-> {}, events |-> <<>>]
NoMessages ==
    [inbound |-> [q \in ServerQueueNames |-> <<>>], arrived |-> {}, replies |-> <<>>]

\* new MessageHandler(): not running, no timer, no statistics
NewMessageHandler ==
    [isRunning |-> FALSE, pollingInterval |-> 1000, pollingTimer |-> <<>>,
     stats |-> <<>>]

\* the helper processes executeMockMQOperation spawns, none running
Helpers == {1, 2}

NoHelper == [pc |-> "none", store |-> <<>>, from |-> <<>>, operation |-> "",
             requestData |-> <<>>, saved |-> FALSE]

NoHelpers == [p \in Helpers |-> NoHelper]

\* the processes of the queue store run no stub matcher and no MQ server,
\* and their MessageHandler is never started
NoMatcher ==
    /\ messageHandler = NewMessageHandler
    /\ timers = {}
    /\ helpers = NoHelpers
    /\ mqServer = <<>>
    /\ eventLoop = IdleLoop
    /\ queueManager = NoMessages
    /\ hostQ = FALSE
    /\ imposterConfig = <<>>
    /\ creationRequest = <<>>
    /\ errors = <<>>
    /\ processed = <<>>

\* the store takes the state the call left; a call that saves ends the way
\* writeFileSync ended
Commit(op, via, queueName, browse, r, env) ==
    /\ queues' = r.queues
    /\ messageId' = r.messageId
    /\ correlationId' = r.correlationId
    /\ hist' = HistoryAfter(op, queueName, browse, r)
    /\ delivered' = DeliveredAfter(op, browse, r)
    /\ UNCHANGED matcherVars
    /\ UNCHANGED serverVars
    /\ UNCHANGED pollerVars
    /\ UNCHANGED bridgeVars
    /\ IF r.save
       THEN \E outcome \in SaveOutcomes :
              /\ outcome # "ok" => faults > 0
              /\ file' = savePersistentData(
                             Store(r.queues, r.messageId, r.correlationId), file, outcome)
              /\ faults' = IF outcome = "ok" THEN faults ELSE faults - 1
              /\ last' = Call(op, via, queueName, browse,
                              savePersistentData_caught(r, outcome), env, outcome, "")
       ELSE /\ UNCHANGED <<file, faults>>
            /\ last' = Call(op, via, queueName, browse, r, env, "none", "")

\* a process starts: the module creates the global store
Constructor(now) ==
    LET st == constructor(file, now) IN
    /\ queues' = st.queues
    /\ messageId' = st.messageId
    /\ correlationId' = st.correlationId
    /\ hist' = [q \in QueueNames |->
                  [put |-> Messages(st.queues, q), got |-> <<>>]]
    /\ delivered' = {}
    /\ last' = Call("constructor", "", "", FALSE, Result(st), NoEnvelope, "none",
                    last.save)
    /\ UNCHANGED <<file, faults>>
    /\ UNCHANGED matcherVars
    /\ UNCHANGED serverVars
    /\ UNCHANGED pollerVars
    /\ UNCHANGED bridgeVars

CreateQueue(queueName, options, now) ==
    Commit("createQueue", "", queueName, FALSE,
           createQueue(Current, queueName, options, now), NoEnvelope)

DeleteQueue(queueName) ==
    Commit("deleteQueue", "", queueName, FALSE,
           deleteQueue(Current, queueName), NoEnvelope)

PutMessage(queueName, messageData, options) ==
    LET r == putMessage(Current, queueName, messageData, options) IN
    /\ r.error = "" => messageId < MaxMessageId
    /\ Commit("putMessage", "", queueName, FALSE, r, NoEnvelope)

GetMessage(queueName, options) ==
    Commit("getMessage", "", queueName, OrFalse(options.browse),
           getMessage(Current, queueName, options), NoEnvelope)

ClearQueue(queueName) ==
    Commit("clearQueue", "", queueName, FALSE,
           clearQueue(Current, queueName), NoEnvelope)

\* mock-mq-handler.js receiveMessage
HandlerReceiveMessage(requestData) ==
    LET queueName == RequestQueue(requestData)
        browse == OrFalse(requestData.browse)
        r == getMessage(Current, queueName, [browse |-> Some(browse)])
    IN  Commit("getMessage", "receiveMessage", queueName, browse, r,
               receiveMessage_response(r, queueName, browse))

\* mock-mq-handler.js clearQueue
HandlerClearQueue(requestData) ==
    LET queueName == RequestQueue(requestData)
        r == clearQueue(Current, queueName)
    IN  Commit("clearQueue", "clearQueue", queueName, FALSE, r, clearQueue_response(r))

GetQueueDepth(queueName) ==
    Commit("getQueueDepth", "", queueName, FALSE,
           getQueueDepth(Current, queueName), NoEnvelope)

\* mock-mq-handler.js sendMessage
HandlerSendMessage(requestData) ==
    LET queueName == RequestQueue(requestData)
        r == putMessage(Current, queueName, RequestMessageData(requestData),
                        sendMessage_options(requestData))
    IN  /\ r.error = "" => messageId < MaxMessageId
        /\ Commit("putMessage", "sendMessage", queueName, FALSE, r,
                  sendMessage_response(r, queueName))

\* mock-mq-handler.js createQueue
HandlerCreateQueue(requestData, now) ==
    LET queueName == CreateRequestQueue(requestData)
        r == IF queueName = "" THEN Throw(Current, QueueNameRequired)
             ELSE createQueue(Current, queueName,
                              [maxDepth |-> Some(OrNumber(requestData.maxDepth,
                                                          CreateQueueDefaultMaxDepth)),
                               description |-> Some(OrString(requestData.description, ""))],
                              now)
    IN  Commit("createQueue", "createQueue", queueName, FALSE, r, createQueue_response(r))

\* Spec: one process, from a fresh start with no state file, on a disk that
\* never fails.  Every state a later process can load is a state an earlier
\* process was in, so what holds of the calls here holds of them in any process.
Init ==
    \E now \in StartTimes :
        LET st == constructor(NoFile, now) IN
        /\ queues = st.queues
        /\ messageId = st.messageId
        /\ correlationId = st.correlationId
        /\ file = NoFile
        /\ faults = 0
        /\ last = Call("constructor", "", "", FALSE, Result(st), NoEnvelope, "none", "")
        /\ hist = [q \in QueueNames |-> NoHistory]
        /\ delivered = {}
        /\ NoMatcher

Next ==
    \/ \E o \in CreateOptions, now \in Times : CreateQueue("APP.QUEUE", o, now)
    \/ DeleteQueue("APP.QUEUE")
    \/ \E q \in QueueNames, i \in PutInputs : PutMessage(q, i.data, i.options)
    \/ \E q \in QueueNames, o \in GetOptions : GetMessage(q, o)
    \/ \E q \in QueueNames : ClearQueue(q)
    \/ \E req \in ReceiveRequests : HandlerReceiveMessage(req)
    \/ \E req \in ClearRequests : HandlerClearQueue(req)

Spec == Init /\ [][Next]_vars

\* PersistSpec: processes that start, work and are replaced by the next one,
\* on a disk where up to MaxFaults snapshot writes fail.
PersistInit ==
    \E now \in StartTimes :
        LET st == constructor(NoFile, now) IN
        /\ queues = st.queues
        /\ messageId = st.messageId
        /\ correlationId = st.correlationId
        /\ file = NoFile
        /\ faults = MaxFaults
        /\ last = Call("constructor", "", "", FALSE, Result(st), NoEnvelope, "none", "")
        /\ hist = [q \in QueueNames |-> NoHistory]
        /\ delivered = {}
        /\ NoMatcher

\* the puts of PersistSpec carry no options
PersistPutInputs == {i \in PutInputs : i.options.correlationId = Undefined}

PersistGetOptions == [browse : {Undefined, Some(TRUE)}]

PersistNext ==
    \/ \E now \in StartTimes : Constructor(now)
    \/ \E now \in Times :
          CreateQueue("APP.QUEUE", [maxDepth |-> Undefined, description |-> Undefined], now)
    \/ DeleteQueue("DEV.QUEUE.1")
    \/ \E q \in QueueNames, i \in PersistPutInputs : PutMessage(q, i.data, i.options)
    \/ \E q \in QueueNames, o \in PersistGetOptions : GetMessage(q, o)
    \/ \E q \in QueueNames : ClearQueue(q)

PersistSpec == PersistInit /\ [][PersistNext]_vars

\* HandlerSpec: one process on a disk that never fails, driven through the
\* send and create operations of the handler and through direct calls.
CorrelationInputs ==
    { [data |-> "a",
       options |-> [correlationId |-> c, priority |-> Undefined,
                    replyToQueue |-> Undefined]] : c \in {Undefined, Some(""), Some("c1")} }

HandlerNext ==
    \/ \E req \in CreateRequests, now \in Times : HandlerCreateQueue(req, now)
    \/ DeleteQueue("APP.QUEUE")
    \/ \E req \in SendRequests : HandlerSendMessage(req)
    \/ \E i \in CorrelationInputs : PutMessage("APP.QUEUE", i.data, i.options)
    \/ \E q \in QueueNames : GetMessage(q, [browse |-> Undefined])
    \/ \E q \in QueueNames : GetQueueDepth(q)
    \/ \E q \in QueueNames : ClearQueue(q)

HandlerSpec == Init /\ [][HandlerNext]_vars

\* GuideSpec: the handler driven by requests shaped as MOCK-MQ-QUICK-START.md
\* shows them, which name the queue in the field queueName
GuideSendRequests ==
    [queueName : {Some("APP.QUEUE"), Some("DEV.QUEUE.1")},
     queue : {Undefined},
     message : {Some("a"), Some("b")},
     body : {Undefined},
     correlationId : {Undefined},
     priority : {Undefined},
     replyQueue : {Undefined}]

GuideReceiveRequests ==
    [queueName : {Some("APP.QUEUE"), Some("DEV.QUEUE.1")},
     queue : {Undefined},
     browse : {Undefined, Some(TRUE)}]

GuideNext ==
    \/ \E req \in CreateRequests, now \in Times : HandlerCreateQueue(req, now)
    \/ \E req \in GuideSendRequests : HandlerSendMessage(req)
    \/ \E req \in GuideReceiveRequests : HandlerReceiveMessage(req)

GuideSpec == Init /\ [][GuideNext]_vars

----------------------------------------------------------------------------
(* MessageHandler: the poller of message-handler.js.  It runs in one       *)
(* process with the queue store, takes the requests off DEV.QUEUE.1 and    *)
(* puts the responses on DEV.QUEUE.RESPONSE.  pollForMessages is declared  *)
(* async and awaits nothing: a poll is one step.  A response object is     *)
(* modelled by its type.                                                   *)

requestQueue == "DEV.QUEUE.1"
responseQueue == "DEV.QUEUE.RESPONSE"

\* this.processors: the message types that have a processor
processors ==
    {"echo", "product_lookup", "customer_info", "process_order", "transform_data",
     "simulate_error"}

\* the payloads put on the request queue: "a" is no JSON, "null" is the JSON
\* of null
PollingPutInputs ==
    { [data |-> "a",
       options |-> [correlationId |-> Undefined, priority |-> Undefined,
                    replyToQueue |-> Undefined]],
      [data |-> "null",
       options |-> [correlationId |-> Some("c1"), priority |-> Some(5),
                    replyToQueue |-> Some("DEV.QUEUE.RESPONSE")]] }

\* JSON.parse(message.data) in its try block: a payload that is no JSON
\* becomes { rawData, parseError }, an object without a type
ParsedData(data) ==
    IF data = "null" THEN [isNull |-> TRUE, type |-> Undefined]
    ELSE [isNull |-> FALSE, type |-> Undefined]

\* MessageHandler.processMessage: the type of the response.  Reading
\* message.type of null throws a TypeError, which the catch block turns into
\* an error response.
MessageHandler_processMessage(message) ==
    IF message.isNull THEN "processing_error_response"
    ELSE LET messageType == OrString(message.type, "echo") IN
         IF messageType \notin processors THEN "unknown_message_response"
         ELSE messageType \o "_response"

\* the text of a correlation id: generateCorrelationId makes "CORR-<n>-<ms>"
CorrelationText(cid) ==
    IF cid.generated THEN "CORR-" \o ToString(cid.seq) ELSE cid.text

\* the options of the put of the response
pollForMessages_options(message) ==
    [correlationId |-> Some(CorrelationText(message.correlationId)),
     replyToQueue |-> Some(OrString(Some(message.replyToQueue), requestQueue)),
     priority |-> Some(OrNumber(Some(message.priority), 0))]

updateStats(h, type) ==
    IF h.stats = Undefined THEN h
    ELSE IF type = "processed"
    THEN [h EXCEPT !.stats = Some([@[1] EXCEPT !.messagesProcessed = @ + 1])]
    ELSE [h EXCEPT !.stats = Some([@[1] EXCEPT !.errors = @ + 1])]

\* setTimeout: a handle that no pending timer has (the first that is free;
\* the handle of a timer that fired may serve again, as the handler replaces
\* the handle it holds whenever it sets a timer)
setTimeout(ts) ==
    CHOOSE n \in 1..(Cardinality(ts) + 1) :
        n \notin ts /\ \A m \in 1..(n - 1) : m \in ts

\* faulty variant: a poll that failed schedules no next poll
pollForMessages_schedule_unlessFailed(h, ts, failed) ==
    IF h.isRunning /\ ~failed
    THEN [handler |-> [h EXCEPT !.pollingTimer = Some(setTimeout(ts))],
          timers |-> ts \cup {setTimeout(ts)}]
    ELSE [handler |-> h, timers |-> ts]

\* the end of pollForMessages, after its try block: the next poll
pollForMessages_schedule(h, ts, failed) ==
    IF h.isRunning
    THEN [handler |-> [h EXCEPT !.pollingTimer = Some(setTimeout(ts))],
          timers |-> ts \cup {setTimeout(ts)}]
    ELSE [handler |-> h, timers |-> ts]

\* the one element of a set of one element
TheOne(S) == CHOOSE v \in S : TRUE

\* the end of the try block of pollForMessages and what follows it, given
\* the result of getMessage and, if the poll came to it, of putMessage
pollForMessages_end(h, ts, get, put) ==
    LET failed == get.error # "" \/ (put # <<>> /\ put[1].error # "")
        polled ==
            IF failed THEN updateStats(h, "error")
            ELSE IF put # <<>> THEN updateStats(h, "processed")
            ELSE h
    IN  TheOne({ [handler |-> next.handler, timers |-> next.timers,
                  get |-> get, put |-> put] :
                 next \in {pollForMessages_schedule(polled, ts, failed)} })

\* the response to the message that getMessage returned, put on the
\* response queue
pollForMessages_respond(get) ==
    IF get.error # "" \/ get.message = <<>> THEN <<>>
    ELSE LET message == get.message[1]
             response == MessageHandler_processMessage(ParsedData(message.data))
         IN  << putMessage(Store(get.queues, get.messageId, get.correlationId),
                           responseQueue, response,
                           pollForMessages_options(message)) >>

\* pollForMessages on the handler h, the pending timers ts and the store st:
\* get is the result of getMessage, put the result of putMessage if the poll
\* came to it.  (The sets of one element make the evaluation compute each
\* result once.)
pollForMessages(h, ts, st) ==
    IF ~h.isRunning
    THEN [handler |-> h, timers |-> ts, get |-> Result(st), put |-> <<>>]
    ELSE TheOne({ TheOne({ pollForMessages_end(h, ts, get, put) :
                           put \in {pollForMessages_respond(get)} }) :
                  get \in {getMessage(st, requestQueue, [browse |-> Some(FALSE)])} })

\* faulty variant: start does not test isRunning
MessageHandler_start_again(h, ts, st) ==
    pollForMessages(
        [h EXCEPT !.isRunning = TRUE,
                  !.stats = Some([messagesProcessed |-> 0, errors |-> 0])],
        ts, st)

\* MessageHandler.start: the first poll is made by start itself
MessageHandler_start(h, ts, st) ==
    IF h.isRunning
    THEN [handler |-> h, timers |-> ts, get |-> Result(st), put |-> <<>>]
    ELSE pollForMessages(
             [h EXCEPT !.isRunning = TRUE,
                       !.stats = Some([messagesProcessed |-> 0, errors |-> 0])],
             ts, st)

\* MessageHandler.stop
MessageHandler_stop(h, ts) ==
    IF ~h.isRunning THEN [handler |-> h, timers |-> ts]
    ELSE [handler |-> [h EXCEPT !.isRunning = FALSE, !.pollingTimer = Undefined],
          timers |-> IF h.pollingTimer # Undefined THEN ts \ {h.pollingTimer[1]}
                     ELSE ts]

MinPollingInterval == 100

\* Math.max(100, interval)
setPollingInterval(h, interval) ==
    [h EXCEPT !.pollingInterval =
                  IF interval > MinPollingInterval THEN interval
                  ELSE MinPollingInterval]

\* the store after a poll p made by `via`; the disk of this process does not
\* fail, so each of its two calls that saves leaves its snapshot in the file
Polled(p, via) ==
    LET r == IF p.put # <<>> THEN p.put[1] ELSE p.get IN
    /\ messageHandler' = p.handler
    /\ timers' = p.timers
    /\ queues' = r.queues
    /\ messageId' = r.messageId
    /\ correlationId' = r.correlationId
    /\ hist' = HistoryAfter("getMessage", requestQueue, FALSE, p.get)
    /\ delivered' = DeliveredAfter("getMessage", FALSE, p.get)
    /\ file' = IF p.get.save
               THEN savePersistentData(
                        Store(r.queues, r.messageId, r.correlationId), file, "ok")
               ELSE file
    /\ last' = Call("pollForMessages", via, requestQueue, FALSE, p.get, NoEnvelope,
                    IF p.get.save THEN "ok" ELSE "none", "")
    /\ UNCHANGED faults
    /\ UNCHANGED matcherVars
    /\ UNCHANGED serverVars
    /\ UNCHANGED bridgeVars

MessageHandlerStart ==
    \E p \in {MessageHandler_start(messageHandler, timers, Current)} :
        Polled(p, "start")

\* a pending timer fires: it is pending no longer, and its callback polls
PollTimer(handle) ==
    /\ handle \in timers
    /\ \E p \in {pollForMessages(messageHandler, timers \ {handle}, Current)} :
           Polled(p, "timer")

MessageHandlerStop ==
    LET s == MessageHandler_stop(messageHandler, timers) IN
    /\ messageHandler' = s.handler
    /\ timers' = s.timers
    /\ UNCHANGED storeVars
    /\ UNCHANGED matcherVars
    /\ UNCHANGED serverVars
    /\ UNCHANGED bridgeVars

\* the arguments of setPollingInterval: under the minimum, and over it
PollingIntervals == {50, 2000}

SetPollingInterval(interval) ==
    /\ messageHandler' = setPollingInterval(messageHandler, interval)
    /\ UNCHANGED timers
    /\ UNCHANGED storeVars
    /\ UNCHANGED matcherVars
    /\ UNCHANGED serverVars
    /\ UNCHANGED bridgeVars

\* the response queue as a client replaces it: one message fills it
SmallQueue == [maxDepth |-> Some(1), description |-> Undefined]

\* PollingSpec: the process of the MessageHandler, from a fresh start on a
\* disk that never fails; clients of the same store put requests, and delete
\* and create the response queue
PollingNext ==
    \/ MessageHandlerStart
    \/ MessageHandlerStop
    \/ \E interval \in PollingIntervals : SetPollingInterval(interval)
    \/ \E handle \in timers : PollTimer(handle)
    \/ \E i \in PollingPutInputs : PutMessage(requestQueue, i.data, i.options)
    \/ DeleteQueue(responseQueue)
    \/ \E now \in Times : CreateQueue(responseQueue, SmallQueue, now)

PollingSpec == Init /\ [][PollingNext]_vars

\* a timer that is pending fires: the event loop of Node runs the callback of
\* every setTimeout that is not cleared
PollingLiveSpec == PollingSpec /\ WF_vars(\E handle \in timers : PollTimer(handle))

----------------------------------------------------------------------------
(* MQMessageHandler: the stub matcher (mqMessageHandler.js), and the part   *)
(* of MQConfig.validateConfig that checks the stubs.                        *)
(*                                                                          *)
(* A string is a sequence of words (<<>> is the empty string), so that      *)
(* indexOf and RegExp.test are decided on it.  A JS object is the function  *)
(* from the dotted paths of its string fields to their values, with the     *)
(* set of the paths that hold an object without string fields.             *)

ReplyMessageType == 2

\* the error of an access to a global that is not defined
ReferenceError == "ReferenceError: Q is not defined"

\* text || dflt: the empty string is falsy
OrText(opt, dflt) == IF opt = Undefined \/ opt[1] = <<>> THEN dflt ELSE opt[1]

Object(leaf, objects) == [leaf |-> leaf, objects |-> objects]

IsPrefix(p, q) == Len(p) <= Len(q) /\ SubSeq(q, 1, Len(p)) = p

Null == [type |-> "null", text |-> <<>>]
StringValue(text) == [type |-> "string", text |-> text]
\* an object, and what its toString() gives
ObjectValue == [type |-> "object", text |-> <<"[object Object]">>]

\* !value
Falsy(value) == value.type = "null" \/ (value.type = "string" /\ value.text = <<>>)

\* field: the parts of the dotted path, field.split('.')
getFieldValue(request, field) ==
    IF field \in DOMAIN request.leaf THEN StringValue(request.leaf[field])
    ELSE IF \/ field \in request.objects
            \/ \E q \in DOMAIN request.leaf : IsPrefix(field, q)
    THEN ObjectValue
    ELSE Null

\* text.indexOf(expected) !== -1
IndexOfFound(text, expected) ==
    \E i \in 0..(Len(text) - Len(expected)) :
        SubSeq(text, i + 1, i + Len(expected)) = expected

\* new RegExp(pattern).test(text), for the patterns ^literal, literal$,
\* ^literal$ and literal
RegExpTest(pattern, text) ==
    \E i \in 0..(Len(text) - Len(pattern.literal)) :
        /\ SubSeq(text, i + 1, i + Len(pattern.literal)) = pattern.literal
        /\ pattern.start => i = 0
        /\ pattern.end => i + Len(pattern.literal) = Len(text)

createRequestFromMessage(message) ==
    Object(
        (<<"protocol">> :> <<"mq">>) @@
        (<<"method">> :> <<"MESSAGE">>) @@
        (<<"path">> :> OrText(Some(message.replyToQueue), <<"/">>)) @@
        (<<"headers", "message-id">> :> message.messageId) @@
        (<<"headers", "correlation-id">> :> message.correlationId) @@
        (<<"headers", "message-type">> :> <<ToString(message.messageType)>>) @@
        (<<"headers", "priority">> :> <<ToString(message.priority)>>) @@
        (<<"headers", "persistence">> :> <<ToString(message.persistence)>>) @@
        (<<"headers", "format">> :> message.format) @@
        (<<"headers", "put-application-name">> :> <<>>) @@
        (<<"headers", "put-time">> :> <<>>) @@
        (<<"headers", "expiry">> :> <<ToString(message.expiry)>>) @@
        (<<"body">> :> message.data) @@
        (<<"ip">> :> <<"127.0.0.1">>) @@
        (<<"queue">> :> OrText(message.queue, <<>>)),
        {<<"query">>, <<"timestamp">>})

\* the four evaluators: every field of the argument must pass
evaluateEquals(request, equals) ==
    \A i \in 1..Len(equals) :
        getFieldValue(request, equals[i].field) = StringValue(equals[i].value)

evaluateContains(request, contains) ==
    \A i \in 1..Len(contains) :
        LET actualValue == getFieldValue(request, contains[i].field) IN
        ~Falsy(actualValue) /\ IndexOfFound(actualValue.text, contains[i].value)

evaluateMatches(request, matches) ==
    \A i \in 1..Len(matches) :
        LET actualValue == getFieldValue(request, matches[i].field) IN
        ~Falsy(actualValue) /\ RegExpTest(matches[i].value, actualValue.text)

evaluateExists(request, exists) ==
    \A i \in 1..Len(exists) :
        exists[i].value = (getFieldValue(request, exists[i].field).type # "null")

\* predicate.key is truthy: the object has the key (its value is an object)
HasKey(predicate, key) == \E i \in 1..Len(predicate.keys) : predicate.keys[i] = key

\* the if / else-if chain of evaluatePredicate: what the promise resolves to
evaluatePredicate_chain(request, predicate) ==
    IF HasKey(predicate, "equals") THEN evaluateEquals(request, predicate.equals)
    ELSE IF HasKey(predicate, "contains") THEN evaluateContains(request, predicate.contains)
    ELSE IF HasKey(predicate, "matches") THEN evaluateMatches(request, predicate.matches)
    ELSE IF HasKey(predicate, "exists") THEN evaluateExists(request, predicate.exists)
    ELSE TRUE

\* a call that returned value
Returned(value) == [thrown |-> "", value |-> value]
\* a call that threw (an async function: its promise is rejected)
Thrown(error) == [thrown |-> error, value |-> FALSE]

\* Q.defer(): Q is a free identifier of mqMessageHandler.js, which neither
\* declares nor requires it; the call throws unless the host has a global Q
Q_defer(Q) == IF Q THEN Returned(TRUE) ELSE Thrown(ReferenceError)

evaluatePredicate(Q, request, predicate) ==
    IF Q_defer(Q).thrown # "" THEN Q_defer(Q)
    ELSE Returned(evaluatePredicate_chain(request, predicate))

RECURSIVE matchesPredicate_from(_, _, _, _)
matchesPredicate_from(Q, request, predicates, i) ==
    IF i > Len(predicates) THEN Returned(TRUE)
    ELSE LET e == evaluatePredicate(Q, request, predicates[i]) IN
         IF e.thrown # "" THEN e
         ELSE IF ~e.value THEN Returned(FALSE)
         ELSE matchesPredicate_from(Q, request, predicates, i + 1)

\* predicates: the optional list of the stub
matchesPredicate(Q, request, predicates) ==
    IF predicates = Undefined \/ Len(predicates[1]) = 0 THEN Returned(TRUE)
    ELSE matchesPredicate_from(Q, request, predicates[1], 1)

\* target[parts[last]] = value, after every part before the last that holds no
\* object was set to {}
setFieldValue(response, field, value) ==
    LET kept == {q \in DOMAIN response.leaf :
                    ~IsPrefix(q, field) /\ ~IsPrefix(field, q)}
    IN  Object([q \in kept \cup {field} |->
                    IF q = field THEN value ELSE response.leaf[q]],
               {q \in response.objects : ~IsPrefix(field, q)})

\* the same assignment when value is the object request holds at from
setFieldObject(response, field, request, from) ==
    LET kept == {q \in DOMAIN response.leaf :
                    ~IsPrefix(q, field) /\ ~IsPrefix(field, q)}
        under == {q \in DOMAIN request.leaf : IsPrefix(from, q)}
        Moved(q) == field \o SubSeq(q, Len(from) + 1, Len(q))
    IN  Object([p \in kept \cup {Moved(q) : q \in under} |->
                    IF p \in kept THEN response.leaf[p]
                    ELSE request.leaf[CHOOSE q \in under : Moved(q) = p]],
               {q \in response.objects : ~IsPrefix(field, q)}
                  \cup {Moved(q) : q \in {o \in request.objects : IsPrefix(from, o)}}
                  \cup (IF under = {} THEN {field} ELSE {}))

RECURSIVE applyBehavior_copy(_, _, _, _)
applyBehavior_copy(response, copy, request, n) ==
    IF n = 0 THEN response
    ELSE LET prev == applyBehavior_copy(response, copy, request, n - 1)
             sourceValue == getFieldValue(request, copy[n].from)
         IN  CASE sourceValue.type = "null" -> prev
               [] sourceValue.type = "string" ->
                    setFieldValue(prev, copy[n].into, sourceValue.text)
               [] sourceValue.type = "object" ->
                    setFieldObject(prev, copy[n].into, request, copy[n].from)

\* wait delays the response and lookup does nothing: both leave it as it is
applyBehavior(response, behavior, request) ==
    applyBehavior_copy(response, behavior.copy, request, Len(behavior.copy))

RECURSIVE processResponse_behaviors(_, _, _, _)
processResponse_behaviors(response, behaviors, request, n) ==
    IF n = 0 THEN response
    ELSE applyBehavior(processResponse_behaviors(response, behaviors, request, n - 1),
                       behaviors[n], request)

\* response: [fields, behaviors]; the result is the copy { ...response }
\* after the behaviors
processResponse(Q, response, request) ==
    IF Q_defer(Q).thrown # "" THEN [thrown |-> ReferenceError, value |-> response.fields]
    ELSE [thrown |-> "",
          value |-> processResponse_behaviors(response.fields, response.behaviors,
                                              request, Len(response.behaviors))]

\* response[part] holds an object
IsObjectAt(fields, part) ==
    \E q \in DOMAIN fields.leaf \cup fields.objects :
        q[1] = part /\ (Len(q) >= 2 \/ q \in fields.objects)

RECURSIVE AllCopies(_, _)
\* the copies of the first n behaviors, in the order they are applied
AllCopies(behaviors, n) ==
    IF n = 0 THEN <<>> ELSE AllCopies(behaviors, n - 1) \o behaviors[n].copy

\* the response object of the stub while processResponse works on its copy
\* { ...response }: the copy is shallow, so an object the response holds at
\* a key is one object for both.  own: the keys to which the copy was given
\* a value of its own.  An assignment into an object that both hold is an
\* assignment to the response object of the stub.
RECURSIVE processResponse_shared(_, _, _, _)
processResponse_shared(fields, copies, request, n) ==
    IF n = 0 THEN [fields |-> fields, own |-> {}]
    ELSE LET prev == processResponse_shared(fields, copies, request, n - 1)
             into == copies[n].into
             sourceValue == getFieldValue(request, copies[n].from)
         IN  IF sourceValue.type = "null" THEN prev
             ELSE IF Len(into) = 1 \/ into[1] \in prev.own
                     \/ ~IsObjectAt(prev.fields, into[1])
             THEN [prev EXCEPT !.own = @ \cup {into[1]}]
             ELSE [prev EXCEPT !.fields =
                      IF sourceValue.type = "string"
                      THEN setFieldValue(@, into, sourceValue.text)
                      ELSE setFieldObject(@, into, request, copies[n].from)]

\* the response object of the stub after processResponse
processResponse_template(response, request) ==
    [response EXCEPT !.fields =
        processResponse_shared(
            @, AllCopies(response.behaviors, Len(response.behaviors)), request,
            Len(AllCopies(response.behaviors, Len(response.behaviors)))).fields]

\* what findMatchingStub found: trace holds, for every stub whose predicates
\* were evaluated, its index and the result of matchesPredicate
Found(thrown, response, used, trace) ==
    [thrown |-> thrown, response |-> response, used |-> used, trace |-> trace]

RECURSIVE findMatchingStub_from(_, _, _, _)
findMatchingStub_from(Q, request, stubs, i) ==
    IF i > Len(stubs) THEN Found("", Undefined, 0, <<>>)
    ELSE LET m == matchesPredicate(Q, request, stubs[i].predicates)
             step == [stub |-> i, thrown |-> m.thrown, value |-> m.value]
         IN  IF m.thrown # "" THEN Found(m.thrown, Undefined, 0, <<step>>)
             ELSE IF m.value
             THEN LET p == processResponse(Q, stubs[i].responses[1], request) IN
                  IF p.thrown # "" THEN Found(p.thrown, Undefined, 0, <<step>>)
                  ELSE Found("", Some(p.value), i, <<step>>)
             ELSE LET rest == findMatchingStub_from(Q, request, stubs, i + 1) IN
                  [rest EXCEPT !.trace = <<step>> \o @]

\* config: the optional imposter configuration
findMatchingStub(Q, request, config) ==
    IF config = Undefined \/ config[1].stubs = Undefined
    THEN Found("", Undefined, 0, <<>>)
    ELSE findMatchingStub_from(Q, request, config[1].stubs[1], 1)

\* the data of an outbound message: a string, or the JSON text of an object
StringData(text) == [text |-> text, json |-> Undefined]
JsonData(object) == [text |-> <<>>, json |-> Some(object)]

\* the fields of the reply that do not depend on the response (messageId,
\* `AMQ${timestamp}${random}`, and putTime are left out)
Reply(originalMessage, data) ==
    [correlationId |-> originalMessage.messageId,
     replyToQueue |-> <<>>,
     messageType |-> ReplyMessageType,
     persistence |-> OrNumber(Some(originalMessage.persistence), DefaultPersistence),
     priority |-> OrNumber(Some(originalMessage.priority), 0),
     putApplicationName |-> "Mountebank-MQ-Server",
     data |-> data]

\* response.body || response.data || ''
ResponseField(response, field) ==
    IF field \in DOMAIN response.leaf THEN Some(response.leaf[field]) ELSE Undefined

\* (format, expiry and headers of the response are not read by the model)
createMessageFromResponse(response, originalMessage) ==
    Reply(originalMessage,
          StringData(OrText(ResponseField(response, <<"body">>),
                            OrText(ResponseField(response, <<"data">>), <<>>))))

NoMatchingStub == "No matching stub found"

createDefaultResponse(originalMessage) ==
    Reply(originalMessage,
          JsonData([status |-> "error", message |-> NoMatchingStub,
                    originalMessageId |-> originalMessage.messageId]))

\* faulty variant: the default of the request path is written into the message
createRequestFromMessage_message_defaulted(message) ==
    [message EXCEPT !.replyToQueue = OrText(Some(@), <<"/">>)]

\* the message after createRequestFromMessage: the request is a new object
\* that holds the fields of the message, all of them strings and numbers, by
\* value; nothing is assigned to the message
createRequestFromMessage_message(message) ==
    message

\* the catch block logs the error and throws it again.  config: the
\* configuration when the call ends; after: the message
\* object when the call ends (setFieldValue assigns to the response and to
\* the objects it creates there); matched: the response of the stub after
\* its behaviors
processMessage(Q, message, config) ==
    LET request == createRequestFromMessage(message)
        found == findMatchingStub(Q, request, config)
    IN  [message |-> message,
         after |-> createRequestFromMessage_message(message),
         matched |-> found.response,
         thrown |-> found.thrown,
         used |-> found.used,
         trace |-> found.trace,
         config |->
             IF found.used = 0 THEN config
             ELSE Some([config[1] EXCEPT !.stubs =
                     Some([@[1] EXCEPT ![found.used].responses[1] =
                             processResponse_template(@, request)])]),
         response |->
             IF found.thrown # "" THEN Undefined
             ELSE IF found.response # Undefined
             THEN Some(createMessageFromResponse(found.response[1], message))
             ELSE Some(createDefaultResponse(message))]

(* MQConfig.validateConfig *)

validPredicateTypes == {"equals", "contains", "matches", "exists", "not", "or", "and"}

\* the errors validatePredicate pushes
validatePredicate(predicate) ==
    (IF Len(predicate.keys) = 0 THEN <<"no predicate type">> ELSE <<>>)
    \o SelectSeq([i \in 1..Len(predicate.keys) |->
                     IF predicate.keys[i] \in validPredicateTypes THEN ""
                     ELSE "invalid predicate type"],
                 LAMBDA e : e # "")

RECURSIVE Concat(_, _)
\* the concatenation of the first n sequences of list
Concat(list, n) == IF n = 0 THEN <<>> ELSE Concat(list, n - 1) \o list[n]

validBehaviorTypes == {"wait", "copy", "lookup", "decorate", "shellTransform"}

\* the errors validateBehavior pushes (a wait of the inputs is a number)
validateBehavior(behavior) ==
    (IF Len(behavior.keys) = 0 THEN <<"no behavior type">> ELSE <<>>)
    \o SelectSeq([i \in 1..Len(behavior.keys) |->
                     IF behavior.keys[i] \in validBehaviorTypes THEN ""
                     ELSE "invalid behavior type"],
                 LAMBDA e : e # "")
    \o (IF OrNumber(behavior.wait, 0) # 0 /\ behavior.wait[1] < 0
        THEN <<"wait is not a non-negative number">> ELSE <<>>)

\* is, proxy or inject; an `is` needs a body or a data (the inputs hold no
\* proxy and no inject, and their behaviors are arrays)
validateResponse(response) ==
    LET hasIs == \E q \in DOMAIN response.fields.leaf : IsPrefix(<<"is">>, q)
                 \/ <<"is">> \in response.fields.objects
    IN  (IF ~hasIs THEN <<"no is, proxy or inject">> ELSE <<>>)
        \o (IF /\ hasIs
               /\ <<"is", "body">> \notin DOMAIN response.fields.leaf
               /\ <<"is", "data">> \notin DOMAIN response.fields.leaf
            THEN <<"is without body or data">> ELSE <<>>)
        \o Concat([i \in 1..Len(response.behaviors) |->
                      validateBehavior(response.behaviors[i])],
                  Len(response.behaviors))

validateStub(stub) ==
    (IF Len(stub.responses) = 0 THEN <<"no response">> ELSE <<>>)
    \o (IF stub.predicates = Undefined THEN <<>>
        ELSE Concat([i \in 1..Len(stub.predicates[1]) |->
                        validatePredicate(stub.predicates[1][i])],
                    Len(stub.predicates[1])))
    \o Concat([i \in 1..Len(stub.responses) |-> validateResponse(stub.responses[i])],
              Len(stub.responses))

\* the value of the queues or the stubs field of a creation request: an
\* array, or a value that is none (an object, a string)
Array(items) == [isArray |-> TRUE, items |-> items]
NotArray == [isArray |-> FALSE, items |-> <<>>]

validQueueTypes == {"input", "output", "both"}

\* the errors the forEach over queues pushes for one queue
validateQueue(queue) ==
    (IF OrString(queue.name, "") = "" THEN <<"queue without name">> ELSE <<>>)
    \o (IF OrString(queue.type, "") # "" /\ queue.type[1] \notin validQueueTypes
        THEN <<"invalid queue type">> ELSE <<>>)

\* the errors validateConfig collects, in the order it pushes them.  A field
\* that is Undefined stands for an absent or a falsy one: the code reads the
\* fields through if (field) only.  (The inputs hold no mq section.)
validateConfig_errors(request) ==
    (IF OrNumber(request.port, 0) = 0 THEN <<"no port">> ELSE <<>>)
    \o (IF OrString(request.protocol, "") # "mq" THEN <<"protocol is not mq">> ELSE <<>>)
    \o (IF request.queues = Undefined THEN <<>>
        ELSE IF ~request.queues[1].isArray THEN <<"queues is not an array">>
        ELSE Concat([i \in 1..Len(request.queues[1].items) |->
                        validateQueue(request.queues[1].items[i])],
                    Len(request.queues[1].items)))
    \o (IF request.stubs = Undefined THEN <<>>
        ELSE IF ~request.stubs[1].isArray THEN <<"stubs is not an array">>
        ELSE Concat([i \in 1..Len(request.stubs[1].items) |->
                        validateStub(request.stubs[1].items[i])],
                    Len(request.stubs[1].items)))

\* faulty variant: validation stops at the first rule that is violated
validateConfig_failFast(request) ==
    IF validateConfig_errors(request) = <<>> THEN <<>>
    ELSE <<validateConfig_errors(request)[1]>>

\* the errors of validateConfig: a non-empty list is thrown as 'bad request'
validateConfig(request) ==
    validateConfig_errors(request)

(* MQServer (part_006): the queues of the server and their processors.      *)
(* An interval is named by the queue its callback polls.                    *)

\* new MQServer(options): the fields the model follows
\* mqClient: isConnected, and the names of the queues it holds open (channels)
NewMQServer ==
    [isRunning |-> FALSE, intervalId |-> Undefined, queues |-> EmptyMap,
     messageProcessors |-> {},
     mqClient |-> [isConnected |-> FALSE, channels |-> {}]]

IsInputType(type) == type = "input" \/ type = "both"

\* mqClient.openQueue, then
\* this.queues.set(queueName, {type: queueConfig.type || 'both', ...})
\* (on a client that is connected: openQueue of another throws)
setupQueue(server, queueConfig) ==
    [server EXCEPT !.queues = MapSet(@, queueConfig.name[1],
                                      [type |-> OrString(queueConfig.type, "both")]),
                   !.mqClient.channels = @ \cup {queueConfig.name[1]}]

RECURSIVE setupQueues_from(_, _, _)
setupQueues_from(server, queueConfigs, n) ==
    IF n = 0 THEN server
    ELSE setupQueue(setupQueues_from(server, queueConfigs, n - 1), queueConfigs[n])

\* this.options.queues is an array, [] included, so the default list is not used
setupQueues(server, options) ==
    setupQueues_from(server, options.queues[1], Len(options.queues[1]))

\* start() of a processor, on s = [server, intervals]: the method is an arrow
\* function, so its `this` is the server that created the processor and
\* isRunning and intervalId are the fields of the server
processor_start(s, queueName) ==
    IF s.server.isRunning THEN s
    ELSE [server |-> [s.server EXCEPT !.isRunning = TRUE,
                                      !.intervalId = Some(queueName)],
          intervals |-> s.intervals \cup {queueName}]

RECURSIVE startMessageProcessors_from(_, _)
startMessageProcessors_from(s, n) ==
    IF n = 0 THEN s
    ELSE LET prev == startMessageProcessors_from(s, n - 1)
             queueName == prev.server.queues.keys[n]
         IN  IF IsInputType(MapGet(prev.server.queues, queueName).type)
             THEN processor_start(
                      [prev EXCEPT !.server.messageProcessors = @ \cup {queueName}],
                      queueName)
             ELSE prev

startMessageProcessors(s) == startMessageProcessors_from(s, Len(s.server.queues.keys))

\* start() of a server that is not running: the client connects (to a queue
\* manager, or in simulation mode) and every queue is opened
start(s, options) ==
    LET connected == [s EXCEPT !.server.mqClient.isConnected = TRUE]
        started == startMessageProcessors(
                       [connected EXCEPT
                           !.server = setupQueues(connected.server, options)])
    IN  [started EXCEPT !.server.isRunning = TRUE]

\* stop() of a processor: as in start(), `this` is the server
processor_stop(s) ==
    IF ~s.server.isRunning THEN s
    ELSE [server |-> [s.server EXCEPT !.isRunning = FALSE, !.intervalId = Undefined],
          intervals |-> IF s.server.intervalId # Undefined
                        THEN s.intervals \ {s.server.intervalId[1]}
                        ELSE s.intervals]

\* every processor is stopped (the first stop leaves nothing to the others),
\* and the map is cleared
stopMessageProcessors(s) ==
    LET stopped == IF s.server.messageProcessors = {} THEN s ELSE processor_stop(s)
    IN  [stopped EXCEPT !.server.messageProcessors = {}]

\* mqClient.closeQueue for every queue of the server
closeAllQueues(server) ==
    [server EXCEPT !.mqClient.channels = @ \ DOMAIN server.queues.val,
                   !.queues = EmptyMap]

\* MQClient.disconnect: the channels are closed, the connection is dropped
disconnect(mqClient) == [isConnected |-> FALSE, channels |-> {}]

\* MQServer.stop
stop(s) ==
    IF ~s.server.isRunning THEN s
    ELSE LET stopped == stopMessageProcessors(s)
             closed == closeAllQueues(stopped.server)
         IN  [stopped EXCEPT
                 !.server = [closed EXCEPT
                               !.mqClient = IF closed.mqClient.isConnected
                                            THEN disconnect(closed.mqClient)
                                            ELSE closed.mqClient,
                               !.isRunning = FALSE]]

\* MQServer.addQueue; setupQueue throws on a client that is not connected
addQueue(s, queueConfig) ==
    IF ~s.server.mqClient.isConnected THEN s
    ELSE LET added == [s EXCEPT !.server = setupQueue(s.server, queueConfig)] IN
         IF queueConfig.type = Some("input") \/ queueConfig.type = Some("both")
         THEN processor_start(
                  [added EXCEPT !.server.messageProcessors = @ \cup {queueConfig.name[1]}],
                  queueConfig.name[1])
         ELSE added

\* MQServer.removeQueue
removeQueue(s, queueName) ==
    LET stopped == IF queueName \in s.server.messageProcessors
                   THEN [processor_stop(s) EXCEPT
                            !.server.messageProcessors = @ \ {queueName}]
                   ELSE s
    IN  [stopped EXCEPT !.server.mqClient.channels = @ \ {queueName},
                        !.server.queues = MapDelete(@, queueName)]

\* the setTimeout calls applyBehavior awaits for the response of the stub used
WaitsOf(result, config) ==
    IF result.thrown # "" \/ result.used = 0 THEN 0
    ELSE LET behaviors == config[1].stubs[1][result.used].responses[1].behaviors IN
         Cardinality({k \in 1..Len(behaviors) : OrNumber(behaviors[k].wait, 0) # 0})

\* sendResponse: the reply the server puts on the reply-to queue
sendResponse(queueName, response) ==
    [queue |-> queueName, correlationId |-> response.correlationId,
     data |-> response.data]

\* this.emit('messageProcessed', queueName, message, response)
MessageProcessed(queueName, message) ==
    [name |-> "messageProcessed", queue |-> queueName, messageId |-> message.messageId]

\* the name of a queue, from the text of a replyToQueue
QueueName(text) == text[1]

\* the end of processQueueMessages, on s = [server, replies, events]: the
\* reply is sent and the event is emitted.  sendResponse opens a reply queue
\* the server does not have; on a client that is not connected it throws,
\* and the catch block of processQueueMessages logs the error.
processQueueMessages_reply(s, queueName, message, response) ==
    IF message.replyToQueue = <<>>
    THEN [s EXCEPT !.events = Append(@, MessageProcessed(queueName, message))]
    ELSE IF ~s.server.mqClient.isConnected THEN s
    ELSE [server |->
              IF MapHas(s.server.queues, QueueName(message.replyToQueue))
              THEN s.server
              ELSE setupQueue(s.server,
                              [name |-> Some(QueueName(message.replyToQueue)),
                               type |-> Some("output")]),
          replies |-> Append(s.replies, sendResponse(message.replyToQueue, response)),
          events |-> Append(s.events, MessageProcessed(queueName, message))]

(* The inputs of the matcher *)

GetProduct == <<"GET_PRODUCT">>
ReplyQueue == <<"DEV.QUEUE.RESPONSE">>

Inbound(id, data, replyToQueue) ==
    [messageId |-> id, correlationId |-> <<"c0">>, replyToQueue |-> replyToQueue,
     messageType |-> DefaultMessageType, persistence |-> DefaultPersistence,
     priority |-> 0, expiry |-> DefaultExpiry, format |-> <<"MQSTR">>,
     data |-> data, queue |-> Undefined]

\* what mqClient.getMessage hands to the server
InboundMessages ==
    { Inbound(<<"m1">>, GetProduct, ReplyQueue),
      Inbound(<<"m2">>, <<"id=7">> \o GetProduct, <<>>),
      Inbound(<<"m3">>, <<"PING">>, ReplyQueue) }

NoFields == <<>>
FieldIs(field, value) == <<[field |-> field, value |-> value]>>

Predicate(keys, equals, contains, matches, exists) ==
    [keys |-> keys, equals |-> equals, contains |-> contains,
     matches |-> matches, exists |-> exists]

EqualsP(field, value) ==
    Predicate(<<"equals">>, FieldIs(field, value), NoFields, NoFields, NoFields)
ContainsP(field, value) ==
    Predicate(<<"contains">>, NoFields, FieldIs(field, value), NoFields, NoFields)
MatchesP(field, pattern) ==
    Predicate(<<"matches">>, NoFields, NoFields, FieldIs(field, pattern), NoFields)
ExistsP(field, shouldExist) ==
    Predicate(<<"exists">>, NoFields, NoFields, NoFields, FieldIs(field, shouldExist))
\* { key: {...} } for a key that is none of the four
OtherP(key) == Predicate(<<key>>, NoFields, NoFields, NoFields, NoFields)

\* { is: { data: D } }
IsData(data) == Object((<<"is", "data">> :> data), {})

Response(fields, behaviors) == [fields |-> fields, behaviors |-> behaviors]

\* a behavior: its keys, the value of wait and the list of copy
Behavior(keys, wait, copy) == [keys |-> keys, wait |-> wait, copy |-> copy]

Copy(from, into) == [from |-> from, into |-> into]
\* { copy: [...] }
CopyB(copies) == Behavior(<<"copy">>, Undefined, copies)
\* { wait: ms }
WaitB(ms) == Behavior(<<"wait">>, Some(ms), <<>>)
\* { key: {...} } for a key that is neither wait nor copy
OtherB(key) == Behavior(<<key>>, Undefined, <<>>)

Stub(predicates, responses) == [predicates |-> predicates, responses |-> responses]

\* the stub of displayConfigurationExample
DocumentedStub ==
    Stub(Some(<<ContainsP(<<"body">>, GetProduct)>>),
         <<Response(IsData(<<"{productId:12345}">>), <<>>)>>)

\* a stub whose response waits, then copies
WaitingStub ==
    Stub(Some(<<ExistsP(<<"body">>, TRUE)>>),
         <<Response(IsData(<<"nested">>),
                    <<WaitB(100),
                      CopyB(<<Copy(<<"headers", "message-id">>, <<"headers", "request", "id">>),
                              Copy(<<"reply">>, <<"data">>)>>)>>)>>)

Stubs ==
    { DocumentedStub,
      Stub(Some(<<EqualsP(<<"body">>, GetProduct)>>),
           <<Response(IsData(<<"exact">>), <<>>)>>),
      Stub(Some(<<ContainsP(<<"body">>, GetProduct), EqualsP(<<"path">>, ReplyQueue)>>),
           <<Response(IsData(<<"with reply">>), <<>>)>>),
      Stub(Some(<<MatchesP(<<"body">>,
                           [start |-> TRUE, literal |-> GetProduct, end |-> FALSE]),
                  ExistsP(<<"headers", "message-id">>, TRUE)>>),
           <<Response(IsData(<<"echo">>),
                      <<CopyB(<<Copy(<<"body">>, <<"data">>)>>)>>)>>),
      Stub(Undefined, <<Response(IsData(<<"any">>), <<>>)>>),
      Stub(Undefined,
           <<Response(IsData(<<"twice">>),
                      <<CopyB(<<Copy(<<"path">>, <<"data">>)>>),
                        CopyB(<<Copy(<<"body">>, <<"data">>)>>)>>)>>),
      WaitingStub,
      Stub(Some(<<>>), <<Response(IsData(<<"all">>), <<>>)>>),
      Stub(Some(<<OtherP("not")>>), <<Response(IsData(<<"not ping">>), <<>>)>>),
      Stub(Some(<<OtherP("startsWith")>>), <<Response(IsData(<<"bogus">>), <<>>)>>),
      Stub(Some(<<ContainsP(<<"body">>, GetProduct)>>), <<>>) }

\* at most this many stubs in a configuration
MaxStubs == 2

StubLists == UNION {[1..n -> Stubs] : n \in 0..MaxStubs}

\* the creation requests of MatcherSpec: all of them valid but for their stubs
Configs ==
    [port : {Some(4545)}, protocol : {Some("mq")}, queues : {Undefined},
     stubs : {Undefined} \cup {Some(Array(l)) : l \in StubLists}]

(* The state machine of the matcher *)

\* field || []
OrEmptyArray(field) == IF field = Undefined THEN <<>> ELSE field[1].items

\* the options create hands to createMQServer
createMQServer_options(request) ==
    [port |-> request.port,
     queues |-> Some(OrEmptyArray(request.queues)),
     stubs |-> Some(OrEmptyArray(request.stubs))]

\* create: the request is validated; validateConfig throws its errors, and
\* only when it returns are the server and the imposter constructed
CreateImposter(request) ==
    /\ creationRequest = Undefined
    /\ creationRequest' = Some(request)
    /\ errors' = validateConfig(request)
    /\ imposterConfig' =
          IF validateConfig(request) # <<>> THEN Undefined
          ELSE Some(createMQServer_options(request))
    /\ mqServer' =
          IF validateConfig(request) # <<>> THEN Undefined ELSE Some(NewMQServer)
    /\ processed' = <<>>
    /\ UNCHANGED <<hostQ, eventLoop, queueManager>>
    /\ UNCHANGED storeVars
    /\ UNCHANGED pollerVars
    /\ UNCHANGED bridgeVars

\* MQMessageHandler.processMessage(message, this.options)
ProcessMessage(message) ==
    /\ \E result \in {processMessage(hostQ, message, imposterConfig)} :
          /\ processed' = Some(result)
          /\ imposterConfig' = result.config
    /\ UNCHANGED <<hostQ, creationRequest, errors>>
    /\ UNCHANGED serverVars
    /\ UNCHANGED storeVars
    /\ UNCHANGED pollerVars
    /\ UNCHANGED bridgeVars

\* MatcherSpec: a host, one imposter created on it, and the messages its
\* server hands to the matcher
MatcherInit ==
    \E now \in StartTimes :
        LET st == constructor(NoFile, now) IN
        /\ queues = st.queues
        /\ messageId = st.messageId
        /\ correlationId = st.correlationId
        /\ file = NoFile
        /\ faults = 0
        /\ last = Call("constructor", "", "", FALSE, Result(st), NoEnvelope, "none", "")
        /\ hist = [q \in QueueNames |-> NoHistory]
        /\ delivered = {}
        /\ hostQ \in BOOLEAN
        /\ imposterConfig = Undefined
        /\ creationRequest = Undefined
        /\ errors = <<>>
        /\ processed = <<>>
        /\ mqServer = Undefined
        /\ eventLoop = IdleLoop
        /\ queueManager = NoMessages
        /\ messageHandler = NewMessageHandler
        /\ timers = {}
        /\ helpers = NoHelpers

MatcherNext ==
    \/ \E config \in Configs : CreateImposter(config)
    \/ \E message \in InboundMessages : ProcessMessage(message)

MatcherSpec == MatcherInit /\ [][MatcherNext]_vars

(* CreateSpec: the creation requests a client can send, valid or not *)

QueueConfig(name, type) == [name |-> name, type |-> type]

QueueLists ==
    { <<QueueConfig(Some("IN.Q"), Some("input"))>>,
      <<QueueConfig(Undefined, Some("topic")), QueueConfig(Some("OUT.Q"), Undefined)>> }

CreationStubs ==
    { DocumentedStub,
      Stub(Some(<<ContainsP(<<"body">>, GetProduct)>>), <<>>),
      Stub(Some(<<OtherP("startsWith"), EqualsP(<<"body">>, GetProduct)>>),
           <<Response(IsData(<<"bogus">>), <<OtherB("repeat")>>)>>),
      Stub(Undefined,
           <<Response(IsData(<<"late">>), <<WaitB(-5), CopyB(<<Copy(<<"body">>, <<"data">>)>>)>>)>>),
      Stub(Some(<<OtherP("not")>>), <<Response(Object(<<>>, {}), <<WaitB(100)>>)>>) }

CreationStubLists == UNION {[1..n -> CreationStubs] : n \in 0..MaxStubs}

CreationRequests ==
    [port : {Undefined, Some(4545)},
     protocol : {Some("http"), Some("mq")},
     queues : {Undefined, Some(NotArray)} \cup {Some(Array(l)) : l \in QueueLists},
     stubs : {Undefined, Some(NotArray)} \cup {Some(Array(l)) : l \in CreationStubLists}]

CreateNext ==
    \/ \E request \in CreationRequests : CreateImposter(request)
    \/ \E message \in InboundMessages : ProcessMessage(message)

CreateSpec == MatcherInit /\ [][CreateNext]_vars

(* TemplateSpec: the imposters whose stubs copy a field of the request into *)
(* the `is` object of their response.                                      *)

TemplateStubs ==
    { DocumentedStub,
      Stub(Some(<<ContainsP(<<"body">>, GetProduct)>>),
           <<Response(IsData(<<"template">>),
                      <<CopyB(<<Copy(<<"body">>, <<"is", "data">>)>>)>>)>>),
      Stub(Undefined,
           <<Response(IsData(<<"any">>),
                      <<CopyB(<<Copy(<<"headers", "message-id">>, <<"is", "id">>),
                                Copy(<<"body">>, <<"data">>)>>)>>)>>) }

TemplateConfigs ==
    [port : {Some(4545)}, protocol : {Some("mq")}, queues : {Undefined},
     stubs : {Some(Array(l)) : l \in [1..1 -> TemplateStubs] \cup [1..2 -> TemplateStubs]}]

TemplateNext ==
    \/ \E config \in TemplateConfigs : CreateImposter(config)
    \/ \E message \in InboundMessages : ProcessMessage(message)

TemplateSpec == MatcherInit /\ [][TemplateNext]_vars

(* PredicateSpec: the imposters whose stubs have one predicate object with *)
(* several type keys, which disagree on some message.                      *)

PredicateStubs ==
    { Stub(Some(<<Predicate(<<"contains", "equals">>,
                            FieldIs(<<"body">>, GetProduct),
                            FieldIs(<<"body">>, <<"PING">>), NoFields, NoFields)>>),
           <<Response(IsData(<<"equals first">>), <<>>)>>),
      Stub(Some(<<Predicate(<<"exists", "matches", "contains">>, NoFields,
                            FieldIs(<<"body">>, GetProduct),
                            FieldIs(<<"body">>,
                                    [start |-> TRUE, literal |-> GetProduct, end |-> FALSE]),
                            FieldIs(<<"headers", "message-id">>, FALSE))>>),
           <<Response(IsData(<<"contains first">>), <<>>)>>),
      Stub(Some(<<Predicate(<<"exists", "matches">>, NoFields, NoFields,
                            FieldIs(<<"body">>,
                                    [start |-> TRUE, literal |-> GetProduct, end |-> FALSE]),
                            FieldIs(<<"body">>, FALSE))>>),
           <<Response(IsData(<<"matches first">>), <<>>)>>),
      Stub(Some(<<Predicate(<<"not", "exists">>, NoFields, NoFields, NoFields,
                            FieldIs(<<"query", "id">>, TRUE))>>),
           <<Response(IsData(<<"exists only">>), <<>>)>>) }

PredicateConfigs ==
    [port : {Some(4545)}, protocol : {Some("mq")}, queues : {Undefined},
     stubs : {Some(Array(l)) : l \in [1..1 -> PredicateStubs] \cup [1..2 -> PredicateStubs]}]

PredicateNext ==
    \/ \E config \in PredicateConfigs : CreateImposter(config)
    \/ \E message \in InboundMessages : ProcessMessage(message)

PredicateSpec == MatcherInit /\ [][PredicateNext]_vars

(* ServerSpec: an imposter with two queues is created and started; messages  *)
(* arrive on the queues of the queue manager and the intervals of the server *)
(* fire.                                                                     *)

ServerRequests ==
    [port : {Some(4545)}, protocol : {Some("mq")},
     queues : { Some(Array(<<QueueConfig(Some("IN.A"), Some("input")),
                             QueueConfig(Some("IN.B"), Undefined)>>)),
                Some(Array(<<QueueConfig(Some("IN.A"), Some("output")),
                             QueueConfig(Some("IN.B"), Some("both"))>>)) },
     stubs : { Some(Array(<<WaitingStub>>)), Some(Array(<<DocumentedStub>>)) }]

\* imposter.start(): server.start() on a server that is not running
Start ==
    /\ mqServer # Undefined
    /\ ~mqServer[1].isRunning
    /\ LET s == start([server |-> mqServer[1], intervals |-> eventLoop.intervals],
                      imposterConfig[1])
       IN  /\ mqServer' = Some(s.server)
           /\ eventLoop' = [eventLoop EXCEPT !.intervals = s.intervals]
    /\ UNCHANGED <<queueManager, hostQ, imposterConfig, creationRequest, errors, processed>>
    /\ UNCHANGED storeVars
    /\ UNCHANGED pollerVars
    /\ UNCHANGED bridgeVars

\* an application puts a message on a queue of the queue manager
Arrive(queueName, message) ==
    /\ message \notin queueManager.arrived
    /\ queueManager' = [queueManager EXCEPT !.inbound[queueName] = Append(@, message),
                                            !.arrived = @ \cup {message}]
    /\ UNCHANGED <<mqServer, eventLoop>>
    /\ UNCHANGED <<hostQ, imposterConfig, creationRequest, errors, processed>>
    /\ UNCHANGED storeVars
    /\ UNCHANGED pollerVars
    /\ UNCHANGED bridgeVars

\* the interval of queueName fires and processQueueMessages finds a message
\* (mqClient.getMessage throws unless the client is connected and holds the
\* queue open): it runs to its end, or to the first setTimeout of a wait
\* behavior
Tick(queueName) ==
    /\ queueName \in eventLoop.intervals
    /\ mqServer[1].mqClient.isConnected
    /\ queueName \in mqServer[1].mqClient.channels
    /\ Len(queueManager.inbound[queueName]) > 0
    /\ \E message \in {Head(queueManager.inbound[queueName])} :
       \E result \in {processMessage(hostQ, message, imposterConfig)} :
       \E waits \in {WaitsOf(result, imposterConfig)} :
       \E s \in {IF result.thrown # "" \/ waits > 0
                 THEN [server |-> mqServer[1], replies |-> queueManager.replies,
                       events |-> eventLoop.events]
                 ELSE processQueueMessages_reply(
                          [server |-> mqServer[1], replies |-> queueManager.replies,
                           events |-> eventLoop.events],
                          queueName, message, result.response[1])} :
           /\ processed' = Some(result)
           /\ imposterConfig' = result.config
           /\ mqServer' = Some(s.server)
           /\ eventLoop' =
                 [eventLoop EXCEPT
                     !.events = s.events,
                     !.tasks = IF result.thrown # "" \/ waits = 0 THEN @
                               ELSE @ \cup
                                    {[queue |-> queueName, message |-> message,
                                      response |-> result.response[1],
                                      waits |-> waits]}]
           /\ queueManager' =
                 [queueManager EXCEPT !.inbound[queueName] = Tail(@),
                                      !.replies = s.replies]
    /\ UNCHANGED <<hostQ, creationRequest, errors>>
    /\ UNCHANGED storeVars
    /\ UNCHANGED pollerVars
    /\ UNCHANGED bridgeVars

\* the timer of a wait behavior fires: the suspended call goes on to the next
\* wait, or to its end
WaitElapsed(task) ==
    /\ task \in eventLoop.tasks
    /\ \E s \in {IF task.waits > 1
                 THEN [server |-> mqServer[1], replies |-> queueManager.replies,
                       events |-> eventLoop.events]
                 ELSE processQueueMessages_reply(
                          [server |-> mqServer[1], replies |-> queueManager.replies,
                           events |-> eventLoop.events],
                          task.queue, task.message, task.response)} :
           /\ mqServer' = Some(s.server)
           /\ eventLoop' =
                 [eventLoop EXCEPT
                     !.events = s.events,
                     !.tasks = IF task.waits > 1
                               THEN (@ \ {task}) \cup {[task EXCEPT !.waits = @ - 1]}
                               ELSE @ \ {task}]
           /\ queueManager' = [queueManager EXCEPT !.replies = s.replies]
    /\ UNCHANGED <<hostQ, imposterConfig, creationRequest, errors, processed>>
    /\ UNCHANGED storeVars
    /\ UNCHANGED pollerVars
    /\ UNCHANGED bridgeVars

\* the arguments of addQueue and removeQueue
AddedQueues ==
    { QueueConfig(Some("IN.B"), Some("input")), QueueConfig(Some("IN.A"), Undefined),
      QueueConfig(Some("IN.C"), Some("both")) }
RemovedQueues == {"IN.A", "IN.B", "IN.C"}

\* server.addQueue(queueConfig)
AddQueue(queueConfig) ==
    /\ mqServer # Undefined
    /\ LET s == addQueue([server |-> mqServer[1], intervals |-> eventLoop.intervals],
                         queueConfig)
       IN  /\ mqServer' = Some(s.server)
           /\ eventLoop' = [eventLoop EXCEPT !.intervals = s.intervals]
    /\ UNCHANGED <<queueManager, hostQ, imposterConfig, creationRequest, errors, processed>>
    /\ UNCHANGED storeVars
    /\ UNCHANGED pollerVars
    /\ UNCHANGED bridgeVars

\* server.removeQueue(queueName)
RemoveQueue(queueName) ==
    /\ mqServer # Undefined
    /\ LET s == removeQueue([server |-> mqServer[1], intervals |-> eventLoop.intervals],
                            queueName)
       IN  /\ mqServer' = Some(s.server)
           /\ eventLoop' = [eventLoop EXCEPT !.intervals = s.intervals]
    /\ UNCHANGED <<queueManager, hostQ, imposterConfig, creationRequest, errors, processed>>
    /\ UNCHANGED storeVars
    /\ UNCHANGED pollerVars
    /\ UNCHANGED bridgeVars

\* server.stop()
Stop ==
    /\ mqServer # Undefined
    /\ LET s == stop([server |-> mqServer[1], intervals |-> eventLoop.intervals])
       IN  /\ mqServer' = Some(s.server)
           /\ eventLoop' = [eventLoop EXCEPT !.intervals = s.intervals]
    /\ UNCHANGED <<queueManager, hostQ, imposterConfig, creationRequest, errors, processed>>
    /\ UNCHANGED storeVars
    /\ UNCHANGED pollerVars
    /\ UNCHANGED bridgeVars

ServerNext ==
    \/ \E request \in ServerRequests : CreateImposter(request)
    \/ Start
    \/ \E queueName \in ServerQueueNames, message \in InboundMessages :
          Arrive(queueName, message)
    \/ \E queueName \in ServerQueueNames : Tick(queueName)
    \/ \E task \in eventLoop.tasks : WaitElapsed(task)

ServerSpec == MatcherInit /\ [][ServerNext]_vars

\* LifecycleSpec: an imposter with two queues is created; its server is
\* started and stopped, and queues are added to it and removed from it
LifecycleRequests == {request \in ServerRequests : request.stubs = Some(Array(<<DocumentedStub>>))}

LifecycleNext ==
    \/ \E request \in LifecycleRequests : CreateImposter(request)
    \/ Start
    \/ \E queueConfig \in AddedQueues : AddQueue(queueConfig)
    \/ \E queueName \in RemovedQueues : RemoveQueue(queueName)
    \/ Stop

LifecycleSpec == MatcherInit /\ [][LifecycleNext]_vars

----------------------------------------------------------------------------
(* Properties of the queue store *)

Keys(qs) == DOMAIN qs.val

Primed == Store(queues', messageId', correlationId')

\* C1: messages leave a queue in the order they were put on it, whatever
\* their priorities: the k-th message a consuming get returned is the k-th
\* message put since the queue was last created, cleared or deleted.
C1_FifoOrder ==
    \A q \in QueueNames :
        /\ Len(hist[q].got) <= Len(hist[q].put)
        /\ \A k \in 1..Len(hist[q].got) : hist[q].got[k] = hist[q].put[k]

\* two puts, then two gets, the second message of higher priority than the first
C1_Witness ==
    \E q \in QueueNames :
        /\ Len(hist[q].put) = 2
        /\ Len(hist[q].got) = 2
        /\ hist[q].got[1].priority < hist[q].got[2].priority
        /\ last.op = "getMessage"

\* C2: putMessage on an existing queue whose depth equals maxDepth throws the
\* queue-full error and leaves the queues and both id counters as they were.
C2_FullQueueRejectsPut ==
    [][ (/\ last'.op = "putMessage"
         /\ MapHas(queues, last'.queue)
         /\ Len(Messages(queues, last'.queue)) = MapGet(queues, last'.queue).maxDepth)
        => (/\ last'.error = QueueFull
            /\ last'.message = <<>>
            /\ queues' = queues
            /\ messageId' = messageId
            /\ correlationId' = correlationId) ]_vars

\* a put was refused on a queue that held exactly maxDepth > 0 messages
C2_Witness ==
    /\ last.op = "putMessage"
    /\ last.error = QueueFull
    /\ MapGet(queues, last.queue).maxDepth > 0
    /\ Len(Messages(queues, last.queue)) = MapGet(queues, last.queue).maxDepth
    /\ MapGet(queues, last.queue).totalMessagesIn = MapGet(queues, last.queue).maxDepth

\* C3: every queue holds at most maxDepth messages, whatever maxDepth the
\* caller of createQueue supplied.
C3_DepthWithinMaxDepth ==
    \A q \in Keys(queues) : Len(Messages(queues, q)) <= MapGet(queues, q).maxDepth

\* C4: a browse returns the head of the queue, changes neither the queues nor
\* the counters, writes no snapshot, and a get or a browse issued right after
\* it returns the message the browse returned.
C4_BrowseChangesNothing ==
    [][ (last'.op = "getMessage" /\ last'.browse /\ last'.error = "")
        => (/\ last'.message =
                  (IF Len(Messages(queues, last'.queue)) = 0 THEN <<>>
                   ELSE <<Messages(queues, last'.queue)[1]>>)
            /\ queues' = queues
            /\ messageId' = messageId
            /\ correlationId' = correlationId
            /\ last'.save = "none"
            /\ file' = file
            /\ getMessage(Primed, last'.queue, [browse |-> Some(TRUE)]).message
                  = last'.message
            /\ getMessage(Primed, last'.queue, [browse |-> Some(FALSE)]).message
                  = last'.message) ]_vars

\* a browse returned the first of two messages
C4_Witness ==
    /\ last.op = "getMessage"
    /\ last.browse
    /\ Len(Messages(queues, last.queue)) = 2
    /\ last.message = <<Messages(queues, last.queue)[1]>>

\* C5: a get or a browse on an existing queue that holds no message returns
\* null, throws nothing and changes nothing; the receive operation of the
\* handler then answers 204 NO_MESSAGES.
C5_EmptyQueueGivesNull ==
    [][ (/\ last'.op = "getMessage"
         /\ MapHas(queues, last'.queue)
         /\ Len(Messages(queues, last'.queue)) = 0)
        => (/\ last'.error = ""
            /\ last'.message = <<>>
            /\ queues' = queues
            /\ messageId' = messageId
            /\ correlationId' = correlationId
            /\ last'.via = "receiveMessage"
                  => (/\ last'.statusCode = StatusNoContent
                      /\ last'.status = "NO_MESSAGES")) ]_vars

\* the handler received from a queue that gets had emptied
C5_Witness ==
    /\ last.op = "getMessage"
    /\ last.via = "receiveMessage"
    /\ last.message = <<>>
    /\ last.statusCode = StatusNoContent
    /\ MapHas(queues, last.queue)
    /\ MapGet(queues, last.queue).totalMessagesOut > 0

InQueue(qs, q, m) ==
    \E i \in 1..Len(Messages(qs, q)) : Messages(qs, q)[i] = m

\* C6: within one process a consuming get never returns a message that an
\* earlier one returned, an accepted message is on its queue after the put,
\* and a message leaves its queue only when a consuming get returns it, when
\* its queue is cleared or when its queue is deleted.
C6_DeliveredAtMostOnce ==
    [][ /\ (last'.op = "getMessage" /\ ~last'.browse /\ last'.message # <<>>)
            => last'.message[1].messageId \notin delivered
        /\ (last'.op = "putMessage" /\ last'.error = "")
            => InQueue(queues', last'.queue, last'.message[1])
        /\ \A q \in Keys(queues') : \A i \in 1..Len(Messages(queues', q)) :
              Messages(queues', q)[i].messageId \notin delivered'
        /\ \A q \in Keys(queues) : \A i \in 1..Len(Messages(queues, q)) :
              LET m == Messages(queues, q)[i] IN
              \/ InQueue(queues', q, m)
              \/ /\ last'.op = "getMessage"
                 /\ ~last'.browse
                 /\ last'.queue = q
                 /\ last'.message = <<m>>
              \/ /\ last'.op \in {"clearQueue", "deleteQueue"}
                 /\ last'.queue = q ]_vars

\* one message was delivered and another one is still on its queue
C6_Witness ==
    /\ last.op = "getMessage"
    /\ ~last.browse
    /\ last.message # <<>>
    /\ delivered # {}
    /\ \E q \in Keys(queues) : Len(Messages(queues, q)) > 0

\* C7: clearQueue on an existing queue returns the depth the queue had before
\* the call and leaves the queue with depth 0; the handler reports that count.
C7_ClearReturnsDepth ==
    [][ (last'.op = "clearQueue" /\ MapHas(queues, last'.queue))
        => (/\ last'.error = ""
            /\ last'.count = Len(Messages(queues, last'.queue))
            /\ MapHas(queues', last'.queue)
            /\ Len(Messages(queues', last'.queue)) = 0
            /\ getQueueDepth(Primed, last'.queue).count = 0
            /\ last'.via = "clearQueue"
                  => (/\ last'.status = "SUCCESS"
                      /\ last'.bodyCount = Some(Len(Messages(queues, last'.queue))))) ]_vars

\* the handler cleared a queue of two messages
C7_Witness ==
    /\ last.op = "clearQueue"
    /\ last.via = "clearQueue"
    /\ last.count = 2
    /\ Len(Messages(queues, last.queue)) = 0

\* C8: clearQueue leaves the counters and maxDepth of the cleared queue, every
\* other queue and both id counters unchanged.
C8_ClearKeepsCounters ==
    [][ (last'.op = "clearQueue" /\ last'.error = "")
        => LET before == MapGet(queues, last'.queue)
               after == MapGet(queues', last'.queue)
           IN  /\ after.totalMessagesIn = before.totalMessagesIn
               /\ after.totalMessagesOut = before.totalMessagesOut
               /\ after.openInputCount = before.openInputCount
               /\ after.openOutputCount = before.openOutputCount
               /\ after.maxDepth = before.maxDepth
               /\ Keys(queues') = Keys(queues)
               /\ \A q \in Keys(queues) \ {last'.queue} :
                     MapGet(queues', q) = MapGet(queues, q)
               /\ messageId' = messageId
               /\ correlationId' = correlationId ]_vars

\* a queue that had taken a message was cleared while another queue held one
C8_Witness ==
    /\ last.op = "clearQueue"
    /\ last.error = ""
    /\ last.count > 0
    /\ MapGet(queues, last.queue).totalMessagesIn > 0
    /\ \E q \in Keys(queues) \ {last.queue} : Len(Messages(queues, q)) > 0

----------------------------------------------------------------------------
(* Properties of the snapshot persistence (PersistSpec) *)

FileKeys(f) == {f.queues[i][1] : i \in 1..Len(f.queues)}

DefaultQueueSet == {defaultQueues[i] : i \in 1..Len(defaultQueues)}

C11_FailedSaveKeepsResult ==
    [][ (last'.save \in {"failed", "torn"})
        => LET q == last'.queue
               before == MapGet(queues, q)
               after == MapGet(queues', q)
           IN  /\ last'.op \in {"putMessage", "getMessage", "clearQueue"}
               /\ last'.error = ""
               /\ MapHas(queues, q) /\ MapHas(queues', q)
               /\ last'.op = "putMessage"
                     => (/\ last'.message # <<>>
                         /\ last'.message[1].messageId = messageId
                         /\ after.messages = Append(before.messages, last'.message[1])
                         /\ after.totalMessagesIn = before.totalMessagesIn + 1
                         /\ after.totalMessagesOut = before.totalMessagesOut
                         /\ messageId' = messageId + 1)
               /\ last'.op = "getMessage"
                     => (/\ last'.message = <<Head(before.messages)>>
                         /\ after.messages = Tail(before.messages)
                         /\ after.totalMessagesOut = before.totalMessagesOut + 1
                         /\ after.totalMessagesIn = before.totalMessagesIn
                         /\ messageId' = messageId)
               /\ last'.op = "clearQueue"
                     => (/\ last'.count = Len(before.messages)
                         /\ after.messages = <<>>
                         /\ after.totalMessagesIn = before.totalMessagesIn
                         /\ messageId' = messageId)
               /\ \A o \in Keys(queues) \ {q} : MapGet(queues', o) = MapGet(queues, o) ]_vars

\* a consuming get returned a message although its snapshot write failed
C11_Witness ==
    /\ last.op = "getMessage"
    /\ last.save \in {"failed", "torn"}
    /\ last.error = ""
    /\ last.message # <<>>
    /\ MapGet(queues, last.queue).totalMessagesOut = 1
    /\ file.kind # "json" \/ file.messageId <= messageId

----------------------------------------------------------------------------
(* Properties of the errors, the ids and the handler (HandlerSpec) *)

\* C12: putMessage, getMessage, getQueueDepth and clearQueue on a queue that
\* is not in the store throw the queue-does-not-exist error, create no queue,
\* change neither the queues nor the counters nor the file, and the send
\* operation of the handler answers with an ERROR envelope.
C12_AbsentQueueFails ==
    [][ (/\ last'.op \in {"putMessage", "getMessage", "getQueueDepth", "clearQueue"}
         /\ ~MapHas(queues, last'.queue))
        => (/\ last'.error = QueueNotFound
            /\ last'.message = <<>>
            /\ ~MapHas(queues', last'.queue)
            /\ queues' = queues
            /\ messageId' = messageId
            /\ correlationId' = correlationId
            /\ last'.save = "none"
            /\ file' = file
            /\ last'.via = "sendMessage"
                  => (/\ last'.statusCode = StatusError
                      /\ last'.status = "ERROR"
                      /\ last'.operation = "SEND")) ]_vars

\* the handler sent to a queue that was deleted while another queue held a message
C12_Witness ==
    /\ last.op = "putMessage"
    /\ last.via = "sendMessage"
    /\ last.error = QueueNotFound
    /\ last.status = "ERROR"
    /\ ~MapHas(queues, last.queue)
    /\ \E q \in Keys(queues) : Len(Messages(queues, q)) > 0

\* C13: createQueue on a name that exists returns false and leaves every
\* queue as it was; the create operation of the handler answers 409
\* QUEUE_EXISTS then, and 201 SUCCESS exactly when a queue was added.
C13_CreateExistingKeepsQueue ==
    [][ (last'.op = "createQueue")
        => (/\ last'.error = "" => last'.flag = ~MapHas(queues, last'.queue)
            /\ MapHas(queues, last'.queue) => (~last'.flag /\ queues' = queues)
            /\ messageId' = messageId
            /\ correlationId' = correlationId
            /\ last'.via = "createQueue"
                  => (/\ MapHas(queues, last'.queue)
                            => (/\ last'.statusCode = StatusConflict
                                /\ last'.status = "QUEUE_EXISTS")
                      /\ (last'.statusCode = StatusCreated /\ last'.status = "SUCCESS")
                            <=> (/\ ~MapHas(queues, last'.queue)
                                 /\ MapHas(queues', last'.queue)
                                 /\ Keys(queues') = Keys(queues) \cup {last'.queue}))) ]_vars

\* the handler was asked to create a queue that exists and holds a message
C13_Witness ==
    /\ last.op = "createQueue"
    /\ last.via = "createQueue"
    /\ last.statusCode = StatusConflict
    /\ ~last.flag
    /\ Len(Messages(queues, last.queue)) > 0
    /\ MapGet(queues, last.queue).created = "t1"

\* C14: a successful put gives its message the value of the message counter
\* and advances the counter by one; a put that fails, and every other call,
\* leaves the counter; every message on a queue and every delivered message
\* has a number below the counter, and no two messages share a number.
C14_MessageIdIncreases ==
    [][ /\ (last'.op = "putMessage" /\ last'.error = "")
            => (/\ last'.message[1].messageId = messageId
                /\ messageId' = messageId + 1)
        /\ ~(last'.op = "putMessage" /\ last'.error = "") => messageId' = messageId
        /\ \A d \in delivered' : d < messageId'
        /\ \A q \in Keys(queues') : \A i \in 1..Len(Messages(queues', q)) :
              /\ Messages(queues', q)[i].messageId < messageId'
              /\ Messages(queues', q)[i].messageId \notin delivered'
              /\ \A p \in Keys(queues') : \A j \in 1..Len(Messages(queues', p)) :
                    Messages(queues', p)[j].messageId = Messages(queues', q)[i].messageId
                       => (p = q /\ i = j) ]_vars

\* the second successful put, to another queue than the first
C14_Witness ==
    /\ last.op = "putMessage"
    /\ last.error = ""
    /\ last.message[1].messageId = InitialCounter + 1
    /\ messageId = InitialCounter + 2
    /\ \E q \in Keys(queues) \ {last.queue} :
          /\ Len(Messages(queues, q)) = 1
          /\ Messages(queues, q)[1].messageId = InitialCounter

\* what a successful put with the correlationId option c stores, when a
\* supplied id is one for which isSupplied holds
CorrelationIdStored(c, isSupplied) ==
    /\ last'.error = ""
       => IF isSupplied
          THEN /\ last'.message[1].correlationId = SuppliedCorrelationId(c[1])
               /\ correlationId' = correlationId
          ELSE /\ last'.message[1].correlationId.generated
               /\ last'.message[1].correlationId.seq = correlationId
               /\ correlationId' = correlationId + 1
    /\ last'.error # "" => correlationId' = correlationId

\* the steps that are no successful put leave the correlation counter
CorrelationCounterKept ==
    ~(last'.op = "putMessage" /\ last'.error = "") => correlationId' = correlationId

\* C15: putMessage stores the correlationId of the options unchanged whenever
\* the options hold one, and a generated id otherwise; the correlation
\* counter advances only when an id is generated.
C15_SuppliedCorrelationIdKept ==
    [][ /\ \A i \in CorrelationInputs :
              PutMessage("APP.QUEUE", i.data, i.options)
                 => CorrelationIdStored(i.options.correlationId,
                                        i.options.correlationId # Undefined)
        /\ \A req \in SendRequests :
              HandlerSendMessage(req)
                 => CorrelationIdStored(req.correlationId, req.correlationId # Undefined)
        /\ CorrelationCounterKept ]_vars

\* C15, amended: putMessage stores the correlationId of the options unchanged
\* whenever the options hold a non-empty one; with none, or with the empty
\* string, it stores a generated id; the correlation counter advances only
\* when an id is generated.
C15_NonEmptyCorrelationIdKept ==
    [][ /\ \A i \in CorrelationInputs :
              PutMessage("APP.QUEUE", i.data, i.options)
                 => CorrelationIdStored(i.options.correlationId,
                                        /\ i.options.correlationId # Undefined
                                        /\ i.options.correlationId[1] # "")
        /\ \A req \in SendRequests :
              HandlerSendMessage(req)
                 => CorrelationIdStored(req.correlationId,
                                        /\ req.correlationId # Undefined
                                        /\ req.correlationId[1] # "")
        /\ CorrelationCounterKept ]_vars

\* a put stored the id its caller supplied after an earlier put had
\* generated one
C15_Witness ==
    /\ last.op = "putMessage"
    /\ last.error = ""
    /\ last.message[1].correlationId = SuppliedCorrelationId("c1")
    /\ correlationId = InitialCounter + 1
    /\ \E i \in 1..Len(Messages(queues, last.queue)) :
          Messages(queues, last.queue)[i].correlationId.generated

\* C27: a send request that names its queue as the quick-start guide does,
\* {"queueName": Q, "message": M}, stores M on Q and on no other queue, and a
\* receive for Q that follows returns M when Q held nothing before.
C27_GuideSendStoresOnNamedQueue ==
    [][ \A req \in GuideSendRequests :
           HandlerSendMessage(req)
             => LET Q == req.queueName[1] IN
                /\ last'.error = "" => last'.queue = Q
                /\ last'.error = ""
                      => /\ Messages(queues', Q)
                               = Append(Messages(queues, Q), last'.message[1])
                         /\ last'.message[1].data = req.message[1]
                         /\ Len(Messages(queues, Q)) = 0
                               => getMessage(Primed, Q, [browse |-> Undefined]).message
                                     = last'.message
                /\ \A q \in Keys(queues) \ {Q} :
                      Messages(queues', q) = Messages(queues, q) ]_vars

----------------------------------------------------------------------------
(* Properties of the stub matcher (MatcherSpec) *)

\* the stubs of the imposter
ConfiguredStubs ==
    IF imposterConfig = Undefined \/ imposterConfig[1].stubs = Undefined THEN <<>>
    ELSE imposterConfig[1].stubs[1]

PredicatesOf(stub) == IF stub.predicates = Undefined THEN <<>> ELSE stub.predicates[1]

\* every predicate of the stub evaluates to true on the request
AllHold(request, stub) ==
    \A i \in 1..Len(PredicatesOf(stub)) :
        evaluatePredicate_chain(request, PredicatesOf(stub)[i])

\* the stubs all of whose predicates hold on the message last processed
Matching ==
    {i \in 1..Len(ConfiguredStubs) :
        AllHold(createRequestFromMessage(processed[1].message), ConfiguredStubs[i])}

First(indices) == CHOOSE i \in indices : \A j \in indices : i <= j

\* the payload of the default response to message
IsDefaultResponse(response, message) ==
    /\ response # Undefined
    /\ response[1].data.json # Undefined
    /\ response[1].data.json[1].status = "error"
    /\ response[1].data.json[1].originalMessageId = message.messageId
    /\ response[1].correlationId = message.messageId

\* C16: when some stub matches the message, the response is made from the
\* matching stub of the lowest index, and the stubs evaluated are exactly
\* those up to it, in order.
C16_FirstMatchWins ==
    (processed # <<>> /\ Matching # {})
    => (/\ processed[1].thrown = ""
        /\ processed[1].used = First(Matching)
        /\ Len(processed[1].trace) = First(Matching)
        /\ \A k \in 1..Len(processed[1].trace) : processed[1].trace[k].stub = k)

\* C17: matchesPredicate returns true for a stub exactly when every predicate
\* of its list evaluates to true; for a missing or an empty list it returns
\* true.
C17_AllPredicatesMustHold ==
    processed # <<>>
    => \A k \in 1..Len(processed[1].trace) :
          LET step == processed[1].trace[k]
              stub == ConfiguredStubs[step.stub]
          IN  /\ step.thrown = ""
              /\ step.value
                    = AllHold(createRequestFromMessage(processed[1].message), stub)
              /\ Len(PredicatesOf(stub)) = 0 => step.value

\* C18: for a message that no stub matches, with no stub list or an empty
\* one included, processMessage throws nothing and returns the default
\* response: status error, originalMessageId the messageId of the message.
C18_NoMatchGivesDefault ==
    (processed # <<>> /\ Matching = {})
    => (/\ processed[1].thrown = ""
        /\ processed[1].used = 0
        /\ IsDefaultResponse(processed[1].response, processed[1].message))

\* a response of the shape { is: { data: D } }, without behaviors
IsDocumentedShape(stub) ==
    /\ stub.predicates # Undefined
    /\ Len(stub.predicates[1]) > 0
    /\ Len(stub.responses) = 1
    /\ DOMAIN stub.responses[1].fields.leaf = {<<"is", "data">>}
    /\ stub.responses[1].behaviors = <<>>

\* C19: with one stub of the documented shape, a message the stub matches is
\* answered with the data D of the stub's first response, and a message it
\* does not match with the default response.
C19_DocumentedStubGivesData ==
    (processed # <<>> /\ Len(ConfiguredStubs) = 1 /\ IsDocumentedShape(ConfiguredStubs[1]))
    => IF Matching # {}
       THEN /\ processed[1].thrown = ""
            /\ processed[1].response # Undefined
            /\ processed[1].response[1].data
                  = StringData(ConfiguredStubs[1].responses[1].fields.leaf[<<"is", "data">>])
       ELSE IsDefaultResponse(processed[1].response, processed[1].message)

\* the keys evaluatePredicate has a branch for
EvaluatedPredicateTypes == {"equals", "contains", "matches", "exists"}

\* C20: every predicate of a configuration that validateConfig accepted has
\* only keys that evaluatePredicate evaluates: equals, contains, matches, exists.
C20_UnknownPredicateKeysRejected ==
    \A i \in 1..Len(ConfiguredStubs) :
        \A j \in 1..Len(PredicatesOf(ConfiguredStubs[i])) :
            \A k \in 1..Len(PredicatesOf(ConfiguredStubs[i])[j].keys) :
                PredicatesOf(ConfiguredStubs[i])[j].keys[k] \in EvaluatedPredicateTypes

\* the message a call of processMessage raised an exception on: some
\* predicate evaluation or the response processing threw
ExceptionRaised ==
    \/ processed[1].thrown # ""
    \/ \E k \in 1..Len(processed[1].trace) : processed[1].trace[k].thrown # ""

\* C22: an exception raised while a message is handled (in a predicate
\* evaluation or in the response processing) does not leave processMessage:
\* the call returns a response of status error that names the message.
C22_ExceptionsBecomeErrorResponses ==
    (processed # <<>> /\ ExceptionRaised)
    => (/\ processed[1].thrown = ""
        /\ processed[1].response # Undefined
        /\ processed[1].response[1].data.json # Undefined
        /\ processed[1].response[1].data.json[1].status = "error"
        /\ processed[1].response[1].data.json[1].originalMessageId
              = processed[1].message.messageId)

\* the response object of the stub that matches first, as configured
MatchedStubResponse == ConfiguredStubs[First(Matching)].responses[1]

\* the copy entries of a response, in the order of its behaviors
CopiesOf(response) ==
    Concat([k \in 1..Len(response.behaviors) |-> response.behaviors[k].copy],
           Len(response.behaviors))

\* two dotted paths of which one leads through the other
Overlap(p, q) == IsPrefix(p, q) \/ IsPrefix(q, p)

\* the copy entries whose source resolves on the message last processed
Effective(copies) ==
    {n \in 1..Len(copies) :
        getFieldValue(createRequestFromMessage(processed[1].message),
                      copies[n].from).type # "null"}

\* copy n wrote its target and no later copy wrote on the path of that target
IsLastWriter(copies, n) ==
    /\ n \in Effective(copies)
    /\ ~\E m \in Effective(copies) : m > n /\ Overlap(copies[m].into, copies[n].into)

\* C23: the behaviors of the matched response are applied in list order, each
\* to the response the one before it produced: a field that several copies
\* write holds, in the outbound response, the value the last of them wrote.
C23_BehaviorsInListOrder ==
    (processed # <<>> /\ Matching # {})
    => LET copies == CopiesOf(MatchedStubResponse)
           request == createRequestFromMessage(processed[1].message)
       IN  /\ processed[1].thrown = ""
           /\ processed[1].matched # Undefined
           /\ \A n \in 1..Len(copies) :
                 (/\ IsLastWriter(copies, n)
                  /\ getFieldValue(request, copies[n].from).type = "string")
                 => /\ copies[n].into \in DOMAIN processed[1].matched[1].leaf
                    /\ processed[1].matched[1].leaf[copies[n].into]
                          = getFieldValue(request, copies[n].from).text

\* C24: a copy {from: F, into: T} sets the field T of the response to the
\* value of the field F of the request, creating the objects on the way to T,
\* and leaves the fields off the path of T as they were; a copy whose F
\* resolves to nothing leaves the response as it was.
C24_CopySetsField ==
    (processed # <<>> /\ Matching # {})
    => LET copies == CopiesOf(MatchedStubResponse)
           request == createRequestFromMessage(processed[1].message)
           before == MatchedStubResponse.fields
       IN  /\ processed[1].thrown = ""
           /\ processed[1].matched # Undefined
           /\ \A q \in DOMAIN before.leaf :
                 (~\E n \in Effective(copies) : Overlap(copies[n].into, q))
                 => /\ q \in DOMAIN processed[1].matched[1].leaf
                    /\ processed[1].matched[1].leaf[q] = before.leaf[q]
           /\ \A q \in DOMAIN processed[1].matched[1].leaf :
                 \/ q \in DOMAIN before.leaf
                 \/ \E n \in Effective(copies) : copies[n].into = q
           /\ \A n \in 1..Len(copies) :
                 (/\ IsLastWriter(copies, n)
                  /\ getFieldValue(request, copies[n].from).type = "string")
                 => /\ copies[n].into \in DOMAIN processed[1].matched[1].leaf
                    /\ processed[1].matched[1].leaf[copies[n].into]
                          = getFieldValue(request, copies[n].from).text
           /\ Effective(copies) = {} => processed[1].matched[1] = before

----------------------------------------------------------------------------
(* Properties of create (CreateSpec) *)

\* how often validateConfig reported the error e
Reported(e) == Cardinality({i \in 1..Len(errors) : errors[i] = e})

ItemsOf(field) ==
    IF field # Undefined /\ field[1].isArray THEN field[1].items ELSE <<>>

IsNotArray(field) == field # Undefined /\ ~field[1].isArray

\* the (stub, predicate, key) places of the request that hold a key not in types
PredicateKeysOutside(request, types) ==
    LET stubs == ItemsOf(request.stubs) IN
    UNION { UNION { {<<i, j, k>> :
                        k \in {k \in 1..Len(PredicatesOf(stubs[i])[j].keys) :
                                  PredicatesOf(stubs[i])[j].keys[k] \notin types}} :
                    j \in 1..Len(PredicatesOf(stubs[i])) } :
            i \in 1..Len(stubs) }

\* the (stub, response, behavior, key) places that hold a key not in types
BehaviorKeysOutside(request, types) ==
    LET stubs == ItemsOf(request.stubs) IN
    UNION { UNION { UNION { {<<i, j, k, l>> :
                                l \in {l \in 1..Len(stubs[i].responses[j].behaviors[k].keys) :
                                          stubs[i].responses[j].behaviors[k].keys[l]
                                             \notin types}} :
                            k \in 1..Len(stubs[i].responses[j].behaviors) } :
                    j \in 1..Len(stubs[i].responses) } :
            i \in 1..Len(stubs) }

StubsWithoutResponses(request) ==
    {i \in 1..Len(ItemsOf(request.stubs)) : Len(ItemsOf(request.stubs)[i].responses) = 0}

\* the rules of the claim that the request violates
RulesViolated(request) ==
    \/ request.port = Undefined
    \/ request.protocol # Some("mq")
    \/ IsNotArray(request.queues)
    \/ IsNotArray(request.stubs)
    \/ StubsWithoutResponses(request) # {}
    \/ PredicateKeysOutside(request, validPredicateTypes) # {}
    \/ BehaviorKeysOutside(request, validBehaviorTypes) # {}


----------------------------------------------------------------------------
(* Properties of the MQ server (ServerSpec) *)

\* the queues of the server that are of type input or both
InputQueues ==
    IF mqServer = Undefined THEN {}
    ELSE {q \in DOMAIN mqServer[1].queues.val :
             IsInputType(MapGet(mqServer[1].queues, q).type)}

----------------------------------------------------------------------------
(* Properties of the polling MessageHandler (PollingSpec) *)

\* a poll took a request off the request queue in this step
PollConsumes ==
    /\ last'.op = "pollForMessages"
    /\ Len(Messages(queues', requestQueue)) < Len(Messages(queues, requestQueue))

\* C28: for every message a poll of the MessageHandler removes from
\* DEV.QUEUE.1, exactly one response is appended to DEV.QUEUE.RESPONSE, and
\* it carries the correlationId of the request; this includes the polls made
\* while the response queue is full or missing.
C28_EveryConsumedRequestAnswered ==
    [][PollConsumes =>
         LET request == Head(Messages(queues, requestQueue))
             before == Messages(queues, responseQueue)
             after == Messages(queues', responseQueue)
         IN  /\ MapHas(queues', responseQueue)
             /\ Len(after) = Len(before) + 1
             /\ SubSeq(after, 1, Len(before)) = before
             /\ CorrelationText(after[Len(after)].correlationId)
                    = CorrelationText(request.correlationId)]_vars

\* this.stats.errors, 0 before the first start
ErrorsOf(h) == IF h.stats = Undefined THEN 0 ELSE h.stats[1].errors

\* a poll of this step ended in its catch block, and the handler is running
PollFailed ==
    /\ last'.op = "pollForMessages"
    /\ messageHandler'.isRunning
    /\ IF messageHandler.isRunning
       THEN ErrorsOf(messageHandler') > ErrorsOf(messageHandler)
       ELSE ErrorsOf(messageHandler') > 0

\* the request with this messageId is on the request queue
OnRequestQueue(id) ==
    \E i \in 1..Len(Messages(queues, requestQueue)) :
        Messages(queues, requestQueue)[i].messageId = id

\* C29: while the MessageHandler is running, a poll that fails (a payload
\* that is no JSON or null, a put that fails, a queue that is missing) still
\* schedules the next poll; so every request on the request queue is
\* eventually consumed, unless the handler is stopped.
C29_PollingSurvivesErrors ==
    /\ [][PollFailed =>
            /\ messageHandler'.pollingTimer # Undefined
            /\ messageHandler'.pollingTimer[1] \in timers']_vars
    /\ \A id \in InitialCounter..MaxMessageId :
           (messageHandler.isRunning /\ OnRequestQueue(id))
               ~> (~messageHandler.isRunning \/ ~OnRequestQueue(id))

\* the first request was consumed by a poll that failed, with no response
\* queue to put to; the handler went on, and a later request was consumed
\* and answered
C29_Witness ==
    LET got == hist[requestQueue].got
        responses == Messages(queues, responseQueue)
    IN  /\ messageHandler.isRunning
        /\ messageHandler.stats = Some([messagesProcessed |-> 1, errors |-> 1])
        /\ Len(got) = 2
        /\ Len(responses) = 1
        /\ CorrelationText(responses[1].correlationId)
               = CorrelationText(got[2].correlationId)
        /\ CorrelationText(got[1].correlationId)
               # CorrelationText(got[2].correlationId)
        /\ timers # {}

\* a request left the request queue in this step
Consumed ==
    Len(Messages(queues', requestQueue)) < Len(Messages(queues, requestQueue))

\* C30: whatever the sequence of start, stop and setPollingInterval, at most
\* one poll timer is pending (start on a running handler sets none), a
\* stopped handler has no pending timer, and a request is consumed only by a
\* running handler: once stop returned, only by the poll of the next start.
C30_OnePollTimer ==
    [][/\ Cardinality(timers') <= 1
       /\ ~messageHandler'.isRunning => timers' = {}
       /\ Consumed => messageHandler'.isRunning
       /\ (Consumed /\ ~messageHandler.isRunning) => last'.via = "start"]_vars

\* the handler was started, its interval was set under the minimum, it
\* answered a request and was stopped; a request put since then waits
C30_Witness ==
    /\ ~messageHandler.isRunning
    /\ messageHandler.pollingInterval = MinPollingInterval
    /\ messageHandler.pollingTimer = Undefined
    /\ messageHandler.stats # Undefined
    /\ messageHandler.stats[1].messagesProcessed = 1
    /\ Len(hist[requestQueue].got) = 1
    /\ Len(Messages(queues, requestQueue)) = 1
    /\ Len(Messages(queues, responseQueue)) = 1
    /\ timers = {}

----------------------------------------------------------------------------
(* Properties of the life cycle of the MQ server (LifecycleSpec) *)

\* the server and the intervals of its process, as the operators take them
ServerState == [server |-> mqServer[1], intervals |-> eventLoop.intervals]

\* C31: while the MQ server is running, every queue of type input or both
\* that start or addQueue registered is polled by an interval of its message
\* processor: each of several input queues, and a queue added after start.
C31_EveryInputQueuePolled ==
    (mqServer # Undefined /\ mqServer[1].isRunning)
        => \A q \in InputQueues : q \in eventLoop.intervals

\* C32: removeQueue(Q) on a running MQ server stops only the processor of Q
\* and closes only Q: isRunning stays true (so a later start() still fails
\* with 'MQ Server is already running'), and the intervals of the other
\* queues stay active.
C32_RemoveQueueStopsOnlyItsQueue ==
    [][\A q \in RemovedQueues :
          (mqServer # Undefined /\ mqServer[1].isRunning /\ RemoveQueue(q))
              => /\ mqServer'[1].isRunning
                 /\ eventLoop'.intervals = eventLoop.intervals \ {q}
                 /\ mqServer'[1].mqClient.channels = mqServer[1].mqClient.channels \ {q}
                 /\ mqServer'[1].queues = MapDelete(mqServer[1].queues, q)]_vars

\* the server holds nothing: no flag, no interval, no queue, no processor, no
\* connection, no open queue
FullyStopped(s) ==
    /\ ~s.server.isRunning
    /\ s.intervals = {}
    /\ s.server.queues = EmptyMap
    /\ s.server.messageProcessors = {}
    /\ ~s.server.mqClient.isConnected
    /\ s.server.mqClient.channels = {}

\* C33: after any sequence of start, addQueue and removeQueue, a stop() that
\* returns leaves the server fully stopped: isRunning false, no interval
\* active, the queue map and the processor map empty, the client
\* disconnected with no open queue.
C33_StopStopsEverything ==
    mqServer # Undefined => FullyStopped(stop(ServerState))

----------------------------------------------------------------------------
(* Properties of the messages of the MQ server (ServerSpec) *)

\* the server retrieved the message and the call that processes it has ended
Retrieved(message) ==
    /\ message \in queueManager.arrived
    /\ \A q \in ServerQueueNames :
          \A i \in 1..Len(queueManager.inbound[q]) : queueManager.inbound[q][i] # message
    /\ \A task \in eventLoop.tasks : task.message # message

EventsOf(message) ==
    {i \in 1..Len(eventLoop.events) : eventLoop.events[i].messageId = message.messageId}

RepliesTo(message) ==
    {i \in 1..Len(queueManager.replies) :
        queueManager.replies[i].correlationId = message.messageId}

\* C34: for every message the MQ server retrieved from an input queue, one
\* messageProcessed event was emitted, and a response was put on a queue if
\* and only if the replyToQueue of the message is not empty: then one
\* response, on that queue, with the messageId of the message as its
\* correlationId.
C34_OneEventAndOneReplyPerMessage ==
    \A message \in InboundMessages :
        Retrieved(message) =>
            /\ Cardinality(EventsOf(message)) = 1
            /\ IF message.replyToQueue = <<>>
               THEN RepliesTo(message) = {}
               ELSE /\ Cardinality(RepliesTo(message)) = 1
                    /\ \A i \in RepliesTo(message) :
                          queueManager.replies[i].queue = message.replyToQueue

----------------------------------------------------------------------------
(* Properties of the response templates (TemplateSpec) *)

\* the configuration create handed to the server
OriginalConfig == Some(createMQServer_options(creationRequest[1]))

----------------------------------------------------------------------------
(* Properties of the state file (PersistSpec) *)

\* the queue is in the snapshot the file holds
InFile(f, queueName) ==
    f.kind = "json" /\ \E i \in 1..Len(f.queues) : f.queues[i][1] = queueName

----------------------------------------------------------------------------
(* The bridge: executeMockMQOperation spawns one helper process per request. *)
(* The helper creates its store when it loads the module (the constructor    *)
(* reads the state file), then reads the request from its standard input,    *)
(* and then runs the one operation, which writes the state file if it        *)
(* changed a queue.  The write of a file is taken as one step.               *)

BridgeRequests ==
    { [operation |-> "send",
       requestData |-> [queue |-> Undefined, message |-> Some(m), body |-> Undefined,
                        correlationId |-> Undefined, priority |-> Undefined,
                        replyQueue |-> Undefined]] : m \in {"a", "b"} }
    \cup { [operation |-> "receive",
            requestData |-> [queue |-> Undefined, browse |-> Undefined]],
           [operation |-> "clear", requestData |-> [queue |-> Undefined]] }

\* faulty variant: the operation works on a store read from the file as it is now
mockMQServer_reloaded(helper, f, now) == constructor(f, now)

\* the store the operation works on: the one created when the module was loaded
mockMQServer(helper, f, now) == helper.store

\* the switch at the end of mock-mq-handler.js
executeOperation(st, operation, requestData) ==
    CASE operation = "send" ->
            putMessage(st, RequestQueue(requestData), RequestMessageData(requestData),
                       sendMessage_options(requestData))
      [] operation = "receive" ->
            getMessage(st, RequestQueue(requestData),
                       [browse |-> Some(OrFalse(requestData.browse))])
      [] operation = "clear" ->
            clearQueue(st, RequestQueue(requestData))

\* spawn('node', [handlerPath, operation]) and the require of the store
Spawn(p, now) ==
    /\ helpers[p].pc # "loaded"
    /\ helpers' = [helpers EXCEPT ![p] =
                      [pc |-> "loaded", store |-> constructor(file, now), from |-> file,
                       operation |-> "", requestData |-> <<>>, saved |-> FALSE]]
    /\ UNCHANGED storeVars
    /\ UNCHANGED matcherVars
    /\ UNCHANGED serverVars
    /\ UNCHANGED pollerVars

\* the request arrived on the standard input: the operation runs and the
\* process ends
Operate(p, request, now) ==
    /\ helpers[p].pc = "loaded"
    /\ \E r \in {executeOperation(mockMQServer(helpers[p], file, now),
                                  request.operation, request.requestData)} :
          /\ r.error = "" /\ request.operation = "send" => r.messageId <= MaxMessageId
          /\ helpers' = [helpers EXCEPT ![p] =
                            [pc |-> "exited",
                             store |-> Store(r.queues, r.messageId, r.correlationId),
                             from |-> helpers[p].from,
                             operation |-> request.operation,
                             requestData |-> request.requestData,
                             saved |-> r.save]]
          /\ file' = IF r.save
                     THEN savePersistentData(
                              Store(r.queues, r.messageId, r.correlationId), file, "ok")
                     ELSE file
    /\ UNCHANGED <<queues, messageId, correlationId, faults, last, hist, delivered>>
    /\ UNCHANGED matcherVars
    /\ UNCHANGED serverVars
    /\ UNCHANGED pollerVars

BridgeNext ==
    \/ \E p \in Helpers, now \in StartTimes : Spawn(p, now)
    \/ \E p \in Helpers, request \in BridgeRequests, now \in StartTimes :
          Operate(p, request, now)

BridgeSpec == Init /\ [][BridgeNext]_vars

\* the snapshot a helper writes that loaded the file f and ran the request
SnapshotOf(f, operation, requestData, now) ==
    LET r == executeOperation(constructor(f, now), operation, requestData)
    IN  StateDocument(Store(r.queues, r.messageId, r.correlationId))

\* C37: a helper process loads the state file, applies its one operation and
\* rewrites the file.  Whatever another helper wrote between the load and the
\* save, the file after the save is the whole snapshot of the saving process:
\* the file it loaded with its own operation applied, and nothing of the
\* other process's change.
C37_LastWriterWins ==
    [][\A p \in Helpers :
          helpers[p].pc = "loaded" /\ helpers'[p].pc = "exited" =>
             IF helpers'[p].saved
             THEN \E now \in StartTimes :
                     file' = SnapshotOf(helpers[p].from, helpers'[p].operation,
                                        helpers'[p].requestData, now)
             ELSE file' = file]_vars

\* both helpers loaded the same file and both sent a message; the file is the
\* snapshot of one of them and holds one message, the other message is lost
C37_Witness ==
    \E p, q \in Helpers :
        /\ p # q
        /\ helpers[p].pc = "exited" /\ helpers[q].pc = "exited"
        /\ helpers[p].saved /\ helpers[q].saved
        /\ helpers[p].operation = "send" /\ helpers[q].operation = "send"
        /\ helpers[p].from = helpers[q].from
        /\ file = StateDocument(helpers[p].store)
        /\ file # StateDocument(helpers[q].store)
        /\ Len(Messages(NewMap(file.queues), "DEV.QUEUE.1")) = 1

----------------------------------------------------------------------------
(* Properties of the counters of a queue (Spec) *)

currentDepth(qs, q) == Len(MapGet(qs, q).messages)

\* a queue as createQueue makes it: no message, both counters 0
Fresh(qs, q) ==
    /\ currentDepth(qs, q) = 0
    /\ MapGet(qs, q).totalMessagesIn = 0
    /\ MapGet(qs, q).totalMessagesOut = 0

\* the number of messages the call that was just made cleared from q
ClearedBy(call, q) ==
    IF call.op = "clearQueue" /\ call.error = "" /\ call.queue = q THEN call.count ELSE 0

\* C38: every queue starts with no messages and both counters 0, and every
\* call changes the depth of a queue by what it adds to totalMessagesIn, less
\* what it adds to totalMessagesOut, less the number of messages it cleared
\* (so currentDepth = totalMessagesIn - totalMessagesOut - cleared in every
\* state); no call decreases a counter, and totalMessagesOut never exceeds
\* totalMessagesIn.
C38_DepthFromCounters ==
    /\ \A q \in DOMAIN queues.val : Fresh(queues, q)
    /\ [][\A q \in DOMAIN queues'.val :
             IF q \in DOMAIN queues.val
             THEN LET before == MapGet(queues, q)
                      after == MapGet(queues', q)
                  IN  /\ after.totalMessagesIn >= before.totalMessagesIn
                      /\ after.totalMessagesOut >= before.totalMessagesOut
                      /\ currentDepth(queues', q) - currentDepth(queues, q)
                            = (after.totalMessagesIn - before.totalMessagesIn)
                              - (after.totalMessagesOut - before.totalMessagesOut)
                              - ClearedBy(last', q)
             ELSE Fresh(queues', q)]_vars
    /\ [](\A q \in DOMAIN queues.val :
             MapGet(queues, q).totalMessagesOut <= MapGet(queues, q).totalMessagesIn)

\* a queue that had messages put, got and cleared
C38_Witness ==
    \E q \in DOMAIN queues.val :
        /\ MapGet(queues, q).totalMessagesIn = 2
        /\ MapGet(queues, q).totalMessagesOut = 1
        /\ currentDepth(queues, q) = 0
        /\ last.op = "clearQueue" /\ last.queue = q /\ last.count = 1

----------------------------------------------------------------------------
(* Properties of a predicate with several type keys (PredicateSpec) *)

PredicateTypes == <<"equals", "contains", "matches", "exists">>

\* the first of equals, contains, matches, exists the predicate carries
Deciding(predicate) ==
    PredicateTypes[CHOOSE i \in 1..Len(PredicateTypes) :
                      /\ HasKey(predicate, PredicateTypes[i])
                      /\ \A j \in 1..(i - 1) : ~HasKey(predicate, PredicateTypes[j])]

\* what the one type key says of the request
DecidedBy(request, predicate, key) ==
    CASE key = "equals" -> evaluateEquals(request, predicate.equals)
      [] key = "contains" -> evaluateContains(request, predicate.contains)
      [] key = "matches" -> evaluateMatches(request, predicate.matches)
      [] key = "exists" -> evaluateExists(request, predicate.exists)

\* C39: a predicate object with several type keys holds exactly when the
\* first of equals, contains, matches, exists that it carries holds of the
\* request; its other keys do not change the result.
C39_FirstTypeKeyDecides ==
    processed # <<>>
    => \A k \in 1..Len(processed[1].trace) :
          LET step == processed[1].trace[k]
              predicate == PredicatesOf(ConfiguredStubs[step.stub])[1]
          IN  /\ step.thrown = ""
              /\ step.value
                    = DecidedBy(createRequestFromMessage(processed[1].message),
                                predicate, Deciding(predicate))

====
